---- MODULE Spec2Model ----
(***************************************************************************)
(* Model of the Guided Eval Builder (GuidedEval component): the phased     *)
(* configuration state machine, the metric list editor with its parallel   *)
(* rationale array, the offline derivation heuristics and the asynchronous *)
(* calls to the suggestion service.                                        *)
(*                                                                         *)
(* Strings are TLA+ strings; the JavaScript string built-ins used by the   *)
(* component (toLowerCase, includes, trim, endsWith, replace, split) are   *)
(* modelled character by character.  Long fixed message texts are          *)
(* abbreviated by a short tag naming the template.                         *)
(***************************************************************************)
EXTENDS Integers, Sequences, FiniteSets, TLC

(***************************************************************************)
(* JavaScript string built-ins                                             *)
(***************************************************************************)
UpperChars == "ABCDEFGHIJKLMNOPQRSTUVWXYZ"
LowerChars == "abcdefghijklmnopqrstuvwxyz"
DigitChars == "0123456789"

CharAt(s, i) == SubSeq(s, i, i)

\* The characters of s, as a set
CharsOf(s) == {CharAt(s, i) : i \in 1..Len(s)}

UpperSet == CharsOf(UpperChars)
LowerSet == CharsOf(LowerChars)
DigitSet == CharsOf(DigitChars)

\* String.prototype.includes
Includes(s, k) ==
    \E i \in 1..(Len(s) - Len(k) + 1) : SubSeq(s, i, i + Len(k) - 1) = k

\* The position of character c in s
IndexIn(s, c) == CHOOSE i \in 1..Len(s) : CharAt(s, i) = c

RECURSIVE LowerRange(_, _, _)
\* The characters lo..hi of s in lower case
LowerRange(s, lo, hi) ==
    IF \A i \in lo..hi : CharAt(s, i) \notin UpperSet THEN SubSeq(s, lo, hi)
    ELSE IF lo = hi THEN CharAt(LowerChars, IndexIn(UpperChars, CharAt(s, lo)))
    ELSE LET mid == (lo + hi) \div 2
         IN  LowerRange(s, lo, mid) \o LowerRange(s, mid + 1, hi)

\* String.prototype.toLowerCase (ASCII)
ToLowerCase(s) == LowerRange(s, 1, Len(s))

\* \s of a regular expression and the white space trim() strips, among the
\* characters a string of the model can hold
\* (the sixth is the vertical tab, U+000B, which has no escape)
IsSpace(c) == c \in {" ", "\n", "\t", "\r", "\f", ""}

\* String.prototype.trim
Trim(s) ==
    LET n  == Len(s)
        lo == CHOOSE i \in 1..n : ~IsSpace(CharAt(s, i))
        hi == n + 1 - (CHOOSE k \in 1..n : ~IsSpace(CharAt(s, n + 1 - k)))
    IN  IF \A i \in 1..n : IsSpace(CharAt(s, i)) THEN "" ELSE SubSeq(s, lo, hi)

\* String.prototype.endsWith
EndsWith(s, k) ==
    Len(s) >= Len(k) /\ SubSeq(s, Len(s) - Len(k) + 1, Len(s)) = k

RECURSIVE ReplaceRange(_, _, _, _, _)
\* The characters lo..hi of s with every character `from` replaced by `to`
ReplaceRange(s, lo, hi, from, to) ==
    IF \A i \in lo..hi : CharAt(s, i) # from THEN SubSeq(s, lo, hi)
    ELSE IF lo = hi THEN to
    ELSE LET mid == (lo + hi) \div 2
         IN  ReplaceRange(s, lo, mid, from, to) \o ReplaceRange(s, mid + 1, hi, from, to)

\* name.replace(/_/g, ' ')
ReplaceUnderscores(s) == ReplaceRange(s, 1, Len(s), "_", " ")

\* s.replace(/\.$/, '')
StripFinalDot(s) == IF EndsWith(s, ".") THEN SubSeq(s, 1, Len(s) - 1) ELSE s

IsNameChar(c) == c \in LowerSet \/ c \in DigitSet \/ IsSpace(c)

RECURSIVE KeepNameChars(_, _, _)
\* s.replace(/[^a-z0-9\s]/g, '') on the characters lo..hi
KeepNameChars(s, lo, hi) ==
    IF \A i \in lo..hi : IsNameChar(CharAt(s, i)) THEN SubSeq(s, lo, hi)
    ELSE IF lo = hi THEN ""
    ELSE LET mid == (lo + hi) \div 2
         IN  KeepNameChars(s, lo, mid) \o KeepNameChars(s, mid + 1, hi)

\* The elements of a finite set of integers in increasing order
SortedSeq(S) ==
    LET below == [e \in S |-> Cardinality({y \in S : y < e})]
    IN  [k \in 1..Cardinality(S) |-> CHOOSE e \in S : below[e] = k - 1]

\* s.split(/\s+/): the pieces of s between the maximal runs of whitespace, in
\* order; a leading or trailing run yields an empty first or last piece
SplitWhitespace(s) ==
    LET n      == Len(s)
        sp(i)  == IsSpace(CharAt(s, i))
        \* a piece starts at 1 and after the last character of every run
        starts == {1} \cup {i + 1 : i \in {j \in 1..n : sp(j) /\ (j = n \/ ~sp(j + 1))}}
        begin  == SortedSeq(starts)
        stop(b) == IF \E j \in b..n : sp(j)
                   THEN (CHOOSE j \in b..n : sp(j) /\ \A h \in b..(j - 1) : ~sp(h)) - 1
                   ELSE n
    IN  [k \in 1..Len(begin) |-> SubSeq(s, begin[k], stop(begin[k]))]

RECURSIVE JoinWith(_, _)
\* Array.prototype.join
JoinWith(seq, sep) ==
    IF seq = <<>> THEN ""
    ELSE IF Len(seq) = 1 THEN seq[1]
    ELSE seq[1] \o sep \o JoinWith(Tail(seq), sep)

StopWords == {"the", "and", "for", "that", "this", "our", "with", "from",
              "are", "was", "will", "can", "has", "have"}

NameWords == 4
MinWordLen == 2

IsNameWord(w) == Len(w) > MinWordLen /\ w \notin StopWords

\* words.filter(w => ...): the name words of seq, in their order
FilterNameWords(seq) ==
    LET idx == SortedSeq({i \in 1..Len(seq) : IsNameWord(seq[i])})
    IN  [k \in 1..Len(idx) |-> seq[idx[k]]]

generateEvalName(description) ==
    LET lower == ToLowerCase(description)
        words == FilterNameWords(SplitWhitespace(KeepNameChars(lower, 1, Len(lower))))
        first == SubSeq(words, 1, IF Len(words) < NameWords THEN Len(words) ELSE NameWords)
    IN  JoinWith(first, "_") \o "_eval"

(***************************************************************************)
(* Phases                                                                  *)
(***************************************************************************)
OBJECTIVE   == "objective"
REFINE      == "refine"
METRICS     == "metrics"
SAMPLE_DATA == "sample_data"
CONNECT     == "connect"
MANAGE      == "manage"
REVIEW      == "review"

PHASE_ORDER == <<OBJECTIVE, REFINE, METRICS, SAMPLE_DATA, CONNECT, MANAGE, REVIEW>>

Phases == {PHASE_ORDER[i] : i \in 1..Len(PHASE_ORDER)}

\* PHASE_ORDER.indexOf(p): zero-based, -1 when p is no phase
phaseIndex(p) ==
    IF p \in Phases THEN (CHOOSE i \in 1..Len(PHASE_ORDER) : PHASE_ORDER[i] = p) - 1 ELSE -1

Pills == {"describe", "metrics", "data", "connect", "manage", "review"}

\* phaseMap of navigateToPhase
phaseMap(pill) ==
    CASE pill = "describe" -> OBJECTIVE
      [] pill = "metrics"  -> METRICS
      [] pill = "data"     -> SAMPLE_DATA
      [] pill = "connect"  -> CONNECT
      [] pill = "manage"   -> MANAGE
      [] pill = "review"   -> REVIEW

(***************************************************************************)
(* Offline derivation: keyword categories and their metric templates       *)
(***************************************************************************)
Metric(field, measurement, description, baseline, target) ==
    [field |-> field, measurement |-> <<measurement>>, description |-> description,
     thresholds |-> [baseline |-> baseline, target |-> target]]

\* some keyword of ks occurs in desc
IncludesAny(desc, ks) == \E k \in ks : Includes(desc, k)

\* The categories in scan order: keywords, metric templates, rationale (each
\* rationale abbreviated to its bold heading)
Categories == <<
    [name |-> "extraction", keywords |-> {"extract", "parse", "field"},
     metrics |-> << Metric("Field Accuracy", "exact_match_ratio", "Percentage of fields extracted correctly", 80, 95),
                    Metric("Format Compliance", "contains_check", "Output matches expected format/structure", 85, 98) >>,
     rationale |-> << "Field Accuracy -> Exact Match Ratio (80% -> 95%)",
                      "Format Compliance -> Contains Check (85% -> 98%)" >>],
    [name |-> "classification", keywords |-> {"classif", "detect", "categor"},
     metrics |-> << Metric("Classification Accuracy", "classification_f1", "F1 score for classification correctness", 75, 90),
                    Metric("False Positive Rate", "numeric_tolerance", "Rate of incorrect positive predictions", 90, 98) >>,
     rationale |-> << "Classification Accuracy -> F1 Score (75% -> 90%)",
                      "False Positive Rate -> Numeric Tolerance (90% -> 98%)" >>],
    [name |-> "generation", keywords |-> {"generat", "summar", "write", "respond", "creat", "stor"},
     metrics |-> << Metric("Response Quality", "llm_judge", "Overall quality rated by LLM judge", 70, 85),
                    Metric("Factual Accuracy", "contains_check", "Key facts present in the output", 80, 95) >>,
     rationale |-> << "Response Quality -> LLM-as-Judge (70% -> 85%)",
                      "Factual Accuracy -> Contains Check (80% -> 95%)" >>],
    [name |-> "numeric", keywords |-> {"amount", "number", "price", "payment", "dollar"},
     metrics |-> << Metric("Numeric Accuracy", "numeric_tolerance", "Numeric values match within tolerance", 85, 99) >>,
     rationale |-> << "Numeric Accuracy -> Numeric Tolerance (85% -> 99%)" >>],
    [name |-> "fuzzy_name", keywords |-> {"name", "address", "merchant"},
     metrics |-> << Metric("String Match", "fuzzy_string_match", "Fuzzy match for names/addresses", 80, 92) >>,
     rationale |-> << "String Match -> Fuzzy String Match (80% -> 92%)" >>],
    [name |-> "fraud_risk", keywords |-> {"fraud", "risk", "compliance"},
     metrics |-> << Metric("Risk Detection", "classification_f1", "Ability to detect risk/fraud cases", 85, 95) >>,
     rationale |-> << "Risk Detection -> F1 Score (85% -> 95%)" >>],
    [name |-> "safety", keywords |-> {"safe", "appropriate", "content", "moderat", "child", "kid", "age"},
     metrics |-> << Metric("Content Safety", "simple_pass_fail", "Output is safe and age-appropriate", 95, 100),
                    Metric("Policy Compliance", "llm_judge", "Content meets policy guidelines", 90, 98) >>,
     rationale |-> << "Content Safety -> Simple Pass/Fail (95% -> 100%)",
                      "Policy Compliance -> LLM-as-Judge (90% -> 98%)" >>] >>

\* The generic pair pushed when no category matched
FallbackCategory ==
    [name |-> "generic", keywords |-> {},
     metrics |-> << Metric("Overall Accuracy", "exact_match_ratio", "General accuracy of outputs", 80, 95),
                    Metric("Output Quality", "simple_pass_fail", "Pass/fail assessment of output quality", 75, 90) >>,
     rationale |-> << "Overall Accuracy -> Exact Match Ratio (80% -> 95%)",
                      "Output Quality -> Simple Pass/Fail (75% -> 90%)" >>]

RECURSIVE Concat(_, _)
\* seqs[i] \o ... \o seqs[Len(seqs)]
Concat(seqs, i) == IF i > Len(seqs) THEN <<>> ELSE seqs[i] \o Concat(seqs, i + 1)

\* The categories with a keyword in desc (the if-chain's conditions)
MatchedCategories(desc) ==
    {i \in 1..Len(Categories) : IncludesAny(desc, Categories[i].keywords)}

\* Variant: the numeric category pushes its metric without a rationale
suggestMetricsWithRationaleUnexplained(description) ==
    LET hit == MatchedCategories(ToLowerCase(description))
    IN  IF hit = {}
        THEN [metrics |-> FallbackCategory.metrics, rationale |-> FallbackCategory.rationale]
        ELSE [metrics   |-> Concat([i \in 1..Len(Categories) |->
                                IF i \in hit THEN Categories[i].metrics ELSE <<>>], 1),
              rationale |-> Concat([i \in 1..Len(Categories) |->
                                IF i \in hit /\ Categories[i].name # "numeric"
                                THEN Categories[i].rationale ELSE <<>>], 1)]

\* Variant: the categories are scanned from the last to the first
suggestMetricsWithRationaleBackwards(description) ==
    LET hit == MatchedCategories(ToLowerCase(description))
        n   == Len(Categories)
    IN  IF hit = {}
        THEN [metrics |-> FallbackCategory.metrics, rationale |-> FallbackCategory.rationale]
        ELSE [metrics   |-> Concat([i \in 1..n |->
                                IF n + 1 - i \in hit THEN Categories[n + 1 - i].metrics
                                ELSE <<>>], 1),
              rationale |-> Concat([i \in 1..n |->
                                IF n + 1 - i \in hit THEN Categories[n + 1 - i].rationale
                                ELSE <<>>], 1)]

\* Every matched category pushes its templates, in scan order; the generic
\* pair is pushed when nothing was
suggestMetricsWithRationale(description) ==
    LET hit == MatchedCategories(ToLowerCase(description))
    IN  IF hit = {}
        THEN [metrics |-> FallbackCategory.metrics, rationale |-> FallbackCategory.rationale]
        ELSE [metrics   |-> Concat([i \in 1..Len(Categories) |->
                                IF i \in hit THEN Categories[i].metrics ELSE <<>>], 1),
              rationale |-> Concat([i \in 1..Len(Categories) |->
                                IF i \in hit THEN Categories[i].rationale ELSE <<>>], 1)]

\* userMessage.length > 100 in generateRefinedPrompt
DetailedLength == 100
\* msg.length < 20 in buildAssistantResponse
MinDescriptionLength == 20
\* userMessage.length > 200 in buildAssistantResponse
GoodLength == 200

generateRefinedPrompt(userMessage) ==
    LET desc    == ToLowerCase(userMessage)
        trimmed == Trim(userMessage)
        dotted  == IF EndsWith(trimmed, ".") THEN trimmed ELSE trimmed \o "."
        isAlreadyDetailed == Len(userMessage) > DetailedLength
        measure == IF ~IncludesAny(desc, {"measure", "eval", "metric", "accur"})
                   THEN " I want to measure the accuracy and quality of its outputs."
                   ELSE ""
        failure == IF ~IncludesAny(desc, {"wrong", "fail", "error", "miss", "incorrect"})
                   THEN IF IncludesAny(desc, {"extract", "parse"})
                        THEN " Key failure modes include extracting wrong values, missing fields, or incorrect formatting."
                        ELSE IF IncludesAny(desc, {"classif", "detect"})
                        THEN " Key failure modes include false positives, false negatives, and misclassifications."
                        ELSE IF IncludesAny(desc, {"generat", "creat", "stor"})
                        THEN " Key failure modes include factual inaccuracies, quality issues, or inappropriate content."
                        ELSE ""
                   ELSE ""
    IN  IF isAlreadyDetailed THEN dotted ELSE dotted \o measure \o failure

(***************************************************************************)
(* What the user types                                                     *)
(***************************************************************************)
ShortText == "x"
Blank == "   "
MidText == " our bot reads merchant names and dollar totals \n"
LongText == "We built an assistant that reads every incoming invoice and reports the dollar total, the due day and the merchant. We want to know how often the reported total is right, how often the due day is right, and how often a merchant is mixed up."

\* The inputValue of a send
Inputs == {ShortText, Blank, MidText, LongText}

\* Prefixes of LongText one short of, at and beyond the lengths
\* buildAssistantResponse and generateRefinedPrompt compare with
BoundaryInputs ==
    {SubSeq(LongText, 1, n) : n \in {MinDescriptionLength - 1, MinDescriptionLength,
                                     DetailedLength + 50, GoodLength, GoodLength + 1}}

\* Edits of the refined description in the REFINE panel
RefinedEdits == {"", "Reads invoices and reports the price."}

FieldEdits == {"Custom Metric"}
MeasurementEdits == {<<>>, <<"llm_judge">>}
ThresholdInputs == {"90", "abc"}

SvcRefinedPrompt == "A support assistant that answers billing questions. Measure answer accuracy."


\* const { metrics, rationale } = suggestMetricsWithRationale(d);
\* const suggestedName = generateEvalName(d);
Derive(d) ==
    LET derived == suggestMetricsWithRationale(d)
    IN  [metrics |-> derived.metrics, rationale |-> derived.rationale,
         suggestedName |-> generateEvalName(d)]

\* The descriptions a session of the model can derive metrics from
Descriptions ==
    {Trim(v) : v \in Inputs \cup BoundaryInputs}
        \cup {generateRefinedPrompt(Trim(v)) : v \in Inputs}
        \cup RefinedEdits \cup {SvcRefinedPrompt}

\* Derive on Descriptions, evaluated once
Derived == [d \in Descriptions |-> Derive(d)]

Derivation(d) == IF d \in DOMAIN Derived THEN Derived[d] ELSE Derive(d)

(***************************************************************************)
(* Configuration record                                                    *)
(***************************************************************************)
\* a || b on strings
OrElse(a, b) == IF a # "" THEN a ELSE b

\* { ...prev, ...updates }
Merge(prev, updates) ==
    [k \in (DOMAIN prev) \cup (DOMAIN updates) |->
        IF k \in DOMAIN updates THEN updates[k] ELSE prev[k]]

\* An object without properties
EmptyObject == <<>>

ThresholdKey(m, j) == m.field \o "_" \o m.measurement[j]

\* Variant: one key for each metric, its field
metricThresholdsByField(metrics) ==
    LET at(k) == {i \in 1..Len(metrics) : metrics[i].field = k}
    IN  [k \in {metrics[i].field : i \in 1..Len(metrics)} |->
            metrics[CHOOSE i \in at(k) : \A h \in at(k) : h <= i].thresholds]

\* metrics.reduce((acc, m) => { m.measurement.forEach(mId =>
\*   { acc[`${m.field}_${mId}`] = m.thresholds; }); return acc; }, {})
metricThresholdsOf(metrics) ==
    LET at(k) == {i \in 1..Len(metrics) :
                     \E j \in 1..Len(metrics[i].measurement) : ThresholdKey(metrics[i], j) = k}
        keys  == UNION {{ThresholdKey(metrics[i], j) : j \in 1..Len(metrics[i].measurement)} :
                           i \in 1..Len(metrics)}
    IN  [k \in keys |-> metrics[CHOOSE i \in at(k) : \A h \in at(k) : h <= i].thresholds]

\* The useState initial value of evalConfig (fields no handler of the model
\* reads or writes are left out)
\* const CURRENT_USER = MOCK_EMPLOYEES[0]; an employee is written by its username
CURRENT_USER == "nategonzalez"

InitialConfig ==
    [name |-> "", team |-> "", description |-> "", capabilityWhat |-> "",
     capabilityWhy |-> "", refinedPrompt |-> "", rationale |-> <<>>,
     owner |-> CURRENT_USER, metrics |-> <<>>, datasetSource |-> "csv",
     datasetUrl |-> "", sampleData |-> <<>>, modelEndpoint |-> "",
     metricThresholds |-> EmptyObject, blocking |-> FALSE, schedule |-> "manual",
     alertOnRegression |-> TRUE, alertChannel |-> ""]

WhyText(name) == "Evaluate the quality and accuracy of " \o ReplaceUnderscores(name)

\* The configUpdates of a metrics derivation
DerivedUpdates(description, name, metrics, rationale) ==
    [capabilityWhat |-> description, capabilityWhy |-> WhyText(name),
     description |-> description, name |-> name, metrics |-> metrics,
     rationale |-> rationale, metricThresholds |-> metricThresholdsOf(metrics)]

TellMeMore == "tell me more"

\* Variant: the length generateRefinedPrompt compares with is used
isAlreadyGoodLowerBar(userMessage) == Len(userMessage) > DetailedLength

isAlreadyGood(userMessage) == Len(userMessage) > GoodLength

buildAssistantResponse(ph, userMessage, cfg) ==
    LET msg == ToLowerCase(userMessage)
    IN  IF ph = OBJECTIVE
        THEN IF Len(msg) < MinDescriptionLength
             THEN [text |-> TellMeMore, phase |-> OBJECTIVE, configUpdates |-> EmptyObject]
             ELSE IF isAlreadyGood(userMessage)
             THEN LET derived == Derivation(userMessage)
                  IN  [text |-> "detailed description: review the suggested metrics",
                       phase |-> METRICS,
                       configUpdates |-> DerivedUpdates(userMessage, derived.suggestedName,
                                                        derived.metrics, derived.rationale)]
             ELSE [text |-> "what I'm hearing: " \o userMessage,
                   phase |-> REFINE,
                   configUpdates |-> [capabilityWhat |-> userMessage,
                                      refinedPrompt |-> generateRefinedPrompt(userMessage)]]
        ELSE IF ph = REFINE
        THEN LET currentPrompt == OrElse(cfg.refinedPrompt, OrElse(cfg.capabilityWhat, ""))
                 combinedDescription == StripFinalDot(currentPrompt) \o ". " \o userMessage
             IN  [text |-> "updated the refined description", phase |-> REFINE,
                  configUpdates |-> [refinedPrompt |-> generateRefinedPrompt(combinedDescription)]]
        ELSE IF ph = METRICS
        THEN [text |-> "updated the configuration", phase |-> METRICS, configUpdates |-> EmptyObject]
        ELSE IF ph = SAMPLE_DATA
        THEN [text |-> "update your sample data settings", phase |-> SAMPLE_DATA, configUpdates |-> EmptyObject]
        ELSE IF ph = MANAGE
        THEN [text |-> "settings updated", phase |-> MANAGE, configUpdates |-> EmptyObject]
        ELSE [text |-> "let me know how I can help", phase |-> ph, configUpdates |-> EmptyObject]

(***************************************************************************)
(* The suggestion service (external): the replies the model draws from     *)
(***************************************************************************)
SvcMetrics == <<
    [field |-> "Answer Accuracy", measurement |-> <<"llm_judge">>,
     description |-> "Answers are correct", baseline |-> 78, target |-> 93,
     rationale |-> "service rationale: answer accuracy"],
    [field |-> "Resolution Rate", measurement |-> <<"task_success_rate">>,
     description |-> "Issues resolved without handoff", baseline |-> 60, target |-> 82,
     rationale |-> "service rationale: resolution rate"] >>

\* Replies of POST /api/chat
ChatResults == {
    [type |-> "refine", is_detailed_enough |-> TRUE, message |-> "service: detailed enough",
     refined_prompt |-> "", config_updates |-> EmptyObject, hasMetrics |-> FALSE,
     metrics |-> <<>>],
    [type |-> "refine", is_detailed_enough |-> FALSE, message |-> "service: refined draft",
     refined_prompt |-> SvcRefinedPrompt, config_updates |-> EmptyObject,
     hasMetrics |-> FALSE, metrics |-> <<>>],
    [type |-> "chat", is_detailed_enough |-> FALSE, message |-> "service: chat reply",
     refined_prompt |-> "", config_updates |-> EmptyObject, hasMetrics |-> FALSE,
     metrics |-> <<>>],
    [type |-> "chat", is_detailed_enough |-> FALSE, message |-> "service: chat reply",
     refined_prompt |-> "", config_updates |-> [team |-> "Lending"], hasMetrics |-> FALSE,
     metrics |-> <<>>],
    [type |-> "chat", is_detailed_enough |-> FALSE, message |-> "service: chat reply with metrics",
     refined_prompt |-> SvcRefinedPrompt, config_updates |-> EmptyObject,
     hasMetrics |-> TRUE, metrics |-> SvcMetrics] }

\* Replies of POST /api/generate-metrics
GenerateMetricsResults == {
    [message |-> "service: metrics", eval_name |-> "billing_support_eval", metrics |-> SvcMetrics] }

\* result.overall_assessment || 'unknown' of the replies of POST
\* /api/validate-metrics
Assessments == {"good", "needs_adjustment", "poor", "unknown"}

\* metricsData.metrics.map(m => ({ field, measurement, description, thresholds }))
MapServiceMetrics(ms) ==
    [i \in 1..Len(ms) |->
        [field |-> ms[i].field, measurement |-> ms[i].measurement,
         description |-> ms[i].description,
         thresholds |-> [baseline |-> ms[i].baseline, target |-> ms[i].target]]]

\* metricsData.metrics.map(m => m.rationale)
MapServiceRationale(ms) == [i \in 1..Len(ms) |-> ms[i].rationale]

\* Bounds of the model
MaxSends == 1
MaxPending == 1
MaxMessages == 4
MaxMetrics == 2
MaxRows == 1
MaxRequests == 2
MaxOverlap == 2
MaxFetching == 2
MaxEdited == 1

(***************************************************************************)
(* parseInt                                                                *)
(***************************************************************************)
HexChars == "0123456789abcdef"

\* The value of c as a digit in the radix, or the radix when it is none
DigitIn(c, radix) ==
    LET lower == ToLowerCase(c)
        v     == IF Len(c) = 1 /\ Includes(HexChars, lower)
                 THEN IndexIn(HexChars, lower) - 1 ELSE radix
    IN  IF v < radix THEN v ELSE radix

RECURSIVE RadixValue(_, _, _)
\* the value of the digits s[1..n] in the radix
RadixValue(s, n, radix) ==
    IF n = 0 THEN 0
    ELSE radix * RadixValue(s, n - 1, radix) + DigitIn(CharAt(s, n), radix)

\* parseInt(value) without a radix: after leading white space and an optional
\* sign, the prefix 0x or 0X selects radix 16, otherwise the radix is 10; the
\* value is that of the longest prefix of digits; NaN when there is no digit
ParseInt(value) ==
    LET t      == Trim(value)
        neg    == Len(t) > 0 /\ CharAt(t, 1) = "-"
        signed == Len(t) > 0 /\ CharAt(t, 1) \in {"-", "+"}
        rest   == IF signed THEN SubSeq(t, 2, Len(t)) ELSE t
        hex    == Len(rest) >= 2 /\ SubSeq(rest, 1, 2) \in {"0x", "0X"}
        radix  == IF hex THEN 16 ELSE 10
        body   == IF hex THEN SubSeq(rest, 3, Len(rest)) ELSE rest
        isDigit(i) == DigitIn(CharAt(body, i), radix) < radix
        nd     == IF \E i \in 1..Len(body) : ~isDigit(i)
                  THEN (CHOOSE i \in 1..Len(body) :
                           /\ ~isDigit(i)
                           /\ \A j \in 1..(i - 1) : isDigit(j)) - 1
                  ELSE Len(body)
        v      == RadixValue(body, nd, radix)
    IN  [isNaN |-> nd = 0, value |-> IF neg THEN 0 - v ELSE v]

\* parseInt(value) || 0
ParseIntOrZero(value) == IF ParseInt(value).isNaN THEN 0 ELSE ParseInt(value).value

\* seq without its i-th element (seq.filter((_, j) => j !== i), splice(i, 1))
RemoveAt(seq, i) ==
    [k \in 1..(Len(seq) - (IF i \in 1..Len(seq) THEN 1 ELSE 0)) |->
        IF k < i THEN seq[k] ELSE seq[k + 1]]

(***************************************************************************)
(* State of one GuidedEval session                                         *)
(***************************************************************************)
VARIABLES
    phase,               \* current phase
    highestPhase,        \* watermark
    messages,            \* transcript: sequence of [role, text]
    isTyping,
    isGeneratingMetrics,
    showDryRunPrompt,
    dryRunDone,
    isDryRunning,
    apiAvailable,
    healthPending,       \* the checkHealth call of the mount effect is in flight
    evalConfig,          \* the configuration record
    pending,             \* asynchronous continuations in flight, in issue order
    isCreating,
    createdEvalId,
    isRunning,
    runResult,
    view,                \* App: the view shown, "guided" while GuidedEval is mounted
    evals,               \* App: the list of evals
    requests,            \* history: the persistence requests the session issued, in order
    metricOrigin,        \* history: for each metric, the rationale derived with it
    last                 \* history: the last operation and its input

progVars == <<phase, highestPhase, messages, isTyping, isGeneratingMetrics,
              showDryRunPrompt, dryRunDone, isDryRunning, apiAvailable,
              healthPending, evalConfig, pending, isCreating, createdEvalId,
              isRunning, runResult, view, evals>>

\* The state of the final review (create, run, done) and of App
finalVars == <<isCreating, createdEvalId, isRunning, runResult, view, evals, requests>>

vars == <<phase, highestPhase, messages, isTyping, isGeneratingMetrics,
          showDryRunPrompt, dryRunDone, isDryRunning, apiAvailable,
          healthPending, evalConfig, pending, isCreating, createdEvalId,
          isRunning, runResult, view, evals, requests, metricOrigin, last>>

\* The rationale recorded for a metric the user added by hand
NoRationale == "(none)"

Record(op, arg) == last' = [op |-> op, arg |-> arg]

Assistant(text) == [role |-> "assistant", text |-> text]
User(text) == [role |-> "user", text |-> text]

Greeting == Assistant("greeting")

NumUserMessages == Cardinality({i \in 1..Len(messages) : messages[i].role = "user"})

\* useState(null) of createdEvalId and of runResult
NoEval == "null"

NoRun == "null"

\* Replies of GET /api/evals (result.evals || [])
ListResults ==
    {<<>>, <<[id |-> "eval-1", name |-> "stored eval", team |-> "Lending", status |-> "active"]>>}

\* Of each demo eval: id, name, team, status
DEMO_EVALS == <<
    [id |-> "demo-1", name |-> "payment_metadata_extraction", team |-> "Payments Platform",
     status |-> "active"],
    [id |-> "demo-2", name |-> "fraud_detection_classifier", team |-> "Risk & Compliance",
     status |-> "active"],
    [id |-> "demo-3", name |-> "payment_dispute_chatbot_eval", team |-> "MFT Payments",
     status |-> "active"] >>

\* A continuation in flight: the call awaited and what the handler's closure
\* captured when it was invoked. Of the captured evalConfig a continuation
\* of the chat reads refinedPrompt and capabilityWhat only
\* (buildAssistantResponse); of the captured transcript the model keeps the
\* length (seen)
Continuation(kind, handler, userMsg) ==
    [kind |-> kind, handler |-> handler, phase |-> phase, userMsg |-> userMsg,
     seen |-> Len(messages),
     evalConfig |-> [refinedPrompt |-> evalConfig.refinedPrompt,
                     capabilityWhat |-> evalConfig.capabilityWhat]]

\* A continuation of a persistence call; the closure holds the whole evalConfig
PersistenceCall(kind, handler, cfg) ==
    [Continuation(kind, handler, "") EXCEPT !.evalConfig = cfg]

\* A call of App.fetchEvals in flight; its closure holds nothing of GuidedEval
FetchCall ==
    [kind |-> "listEvals", handler |-> "App.fetchEvals", phase |-> OBJECTIVE,
     userMsg |-> "", seen |-> 0, evalConfig |-> InitialConfig]

\* What App holds when the guided view is opened. App fetches its list when
\* it is mounted (useEffect -> fetchEvals) and again on every call of
\* onRefresh: evals is the initial [], a list a fetch resolved with, or the
\* demo records a failed fetch left, and up to MaxFetching fetches are still
\* in flight
AppStarts ==
    [evals : ListResults \cup {DEMO_EVALS}, fetching : 0..MaxFetching]

\* The state in which GuidedEval is mounted: the useState initial values of
\* GuidedEval, App showing the guided view, and what App holds
MountedWith(app) ==
    /\ phase = OBJECTIVE
    /\ highestPhase = OBJECTIVE
    /\ messages = <<Greeting>>
    /\ isTyping = FALSE
    /\ isGeneratingMetrics = FALSE
    /\ showDryRunPrompt = FALSE
    /\ dryRunDone = FALSE
    /\ isDryRunning = FALSE
    /\ apiAvailable = FALSE
    /\ healthPending = TRUE
    /\ evalConfig = InitialConfig
    /\ isCreating = FALSE
    /\ createdEvalId = NoEval
    /\ isRunning = FALSE
    /\ runResult = NoRun
    /\ view = "guided"
    /\ evals = app.evals
    /\ pending = [k \in 1..app.fetching |-> FetchCall]
    /\ requests = <<>>
    /\ metricOrigin = <<>>
    /\ last = [op |-> "init", arg |-> ""]

Init == \E app \in AppStarts : MountedWith(app)

\* The start in which App's first fetch resolved with an empty list before
\* the guided view was opened. The list is read and written by App only, so
\* the sessions that never reach App's callbacks are explored from this start
InitListEmpty == MountedWith([evals |-> <<>>, fetching |-> 0])

\* Variant: the watermark is set to every new phase
setPhaseResetting(newPhase) ==
    /\ phase' = newPhase
    /\ highestPhase' = newPhase

\* Variant: only the phase is set
setPhaseRawOnly(newPhase) ==
    /\ phase' = newPhase
    /\ highestPhase' = highestPhase

\* setPhase: the watermark follows the phase forward only
setPhase(newPhase) ==
    /\ phase' = newPhase
    /\ highestPhase' = IF phaseIndex(newPhase) > phaseIndex(highestPhase)
                       THEN newPhase ELSE highestPhase

\* Variant: the updates are merged into the initial record
updateConfigFromInitial(updates) == evalConfig' = Merge(InitialConfig, updates)

\* updateConfig(updates): setEvalConfig(prev => ({ ...prev, ...updates }))
updateConfig(updates) == evalConfig' = Merge(evalConfig, updates)

\* History kept beside updateConfig(updates) where updates carries a derived
\* metrics array: the rationale derived with each metric
TrackOrigin(updates) ==
    metricOrigin' = IF "metrics" \in DOMAIN updates
                    THEN [i \in 1..Len(updates.metrics) |->
                             IF "rationale" \in DOMAIN updates /\ i <= Len(updates.rationale)
                             THEN updates.rationale[i] ELSE NoRationale]
                    ELSE metricOrigin

\* GuidedEval is rendered (App shows the guided view)
Mounted == view = "guided"

\* checkHealth().then(...); a state update of the unmounted component is
\* dropped
HealthResolves ==
    /\ healthPending
    /\ healthPending' = FALSE
    /\ apiAvailable' = (IF Mounted THEN TRUE ELSE apiAvailable)
    /\ UNCHANGED finalVars
    /\ Record("HealthResolves", "")
    /\ UNCHANGED <<phase, highestPhase, messages, isTyping, isGeneratingMetrics,
                   showDryRunPrompt, dryRunDone, isDryRunning, evalConfig, pending,
                   metricOrigin>>

\* checkHealth().catch(...)
HealthRejects ==
    /\ healthPending
    /\ healthPending' = FALSE
    /\ apiAvailable' = (IF Mounted THEN FALSE ELSE apiAvailable)
    /\ UNCHANGED finalVars
    /\ Record("HealthRejects", "")
    /\ UNCHANGED <<phase, highestPhase, messages, isTyping, isGeneratingMetrics,
                   showDryRunPrompt, dryRunDone, isDryRunning, evalConfig, pending,
                   metricOrigin>>

\* Variant: leaving a panel also closes its validation offer
navigateToPhaseClosingOffer(targetPill) ==
    /\ LET newPhase == phaseMap(targetPill)
       IN  IF newPhase # phase
           THEN setPhase(newPhase)
           ELSE UNCHANGED <<phase, highestPhase>>
    /\ showDryRunPrompt' = FALSE
    /\ UNCHANGED finalVars
    /\ Record("navigateToPhase", targetPill)
    /\ UNCHANGED <<messages, isTyping, isGeneratingMetrics, dryRunDone, isDryRunning,
                   apiAvailable, healthPending, evalConfig, pending, metricOrigin>>

\* A click on a pill of the phase indicator
navigateToPhase(targetPill) ==
    /\ LET newPhase == phaseMap(targetPill)
       IN  IF newPhase # phase
           THEN setPhase(newPhase)
           ELSE UNCHANGED <<phase, highestPhase>>
    /\ UNCHANGED finalVars
    /\ Record("navigateToPhase", targetPill)
    /\ UNCHANGED <<messages, isTyping, isGeneratingMetrics, showDryRunPrompt,
                   dryRunDone, isDryRunning, apiAvailable, healthPending, evalConfig,
                   pending, metricOrigin>>

\* The sessions explored send at most MaxSends messages and keep at most
\* MaxPending calls in flight
SendAllowed == NumUserMessages < MaxSends /\ Len(pending) < MaxPending

\* handleSend (Send button, or Enter in the textarea through handleKeyDown)
\* up to its first suspension point
handleSend(inputValue) ==
    /\ Trim(inputValue) # ""
    /\ LET userMsg == Trim(inputValue)
       IN  /\ messages' = Append(messages, User(userMsg))
           /\ pending' = Append(pending,
                  Continuation(IF apiAvailable THEN "sendChatMessage" ELSE "timer",
                               "handleSend", userMsg))
    /\ isTyping' = TRUE
    /\ UNCHANGED finalVars
    /\ Record("handleSend", inputValue)
    /\ UNCHANGED <<phase, highestPhase, isGeneratingMetrics, showDryRunPrompt,
                   dryRunDone, isDryRunning, apiAvailable, healthPending, evalConfig,
                   metricOrigin>>

\* Variant: the reply always records the message as the capability
ApplyOfflineResponseRecording(c) ==
    LET response == buildAssistantResponse(c.phase, c.userMsg, c.evalConfig)
        updates  == Merge([capabilityWhat |-> c.userMsg], response.configUpdates)
    IN  /\ messages' = Append(messages, Assistant(response.text))
        /\ updateConfig(updates)
        /\ TrackOrigin(updates)
        /\ IF response.phase # c.phase
           THEN setPhase(response.phase)
           ELSE UNCHANGED <<phase, highestPhase>>

\* The offline reply of handleSend: the setTimeout callback and the catch
\* block apply buildAssistantResponse to what the closure captured
ApplyOfflineResponse(c) ==
    LET response == buildAssistantResponse(c.phase, c.userMsg, c.evalConfig)
    IN  /\ messages' = Append(messages, Assistant(response.text))
        /\ updateConfig(response.configUpdates)
        /\ TrackOrigin(response.configUpdates)
        /\ IF response.phase # c.phase
           THEN setPhase(response.phase)
           ELSE UNCHANGED <<phase, highestPhase>>

\* seq with e put at position k
InsertAt(seq, k, e) == SubSeq(seq, 1, k - 1) \o <<e>> \o SubSeq(seq, k, Len(seq))

\* Variant: the reply is put right after the message it answers
SendTimerFiresInPlace(i) ==
    /\ i \in 1..Len(pending)
    /\ pending[i].kind = "timer"
    /\ LET c        == pending[i]
           response == buildAssistantResponse(c.phase, c.userMsg, c.evalConfig)
       IN  /\ messages' = InsertAt(messages, c.seen + 2, Assistant(response.text))
           /\ updateConfig(response.configUpdates)
           /\ TrackOrigin(response.configUpdates)
           /\ IF response.phase # c.phase
              THEN setPhase(response.phase)
              ELSE UNCHANGED <<phase, highestPhase>>
    /\ isTyping' = FALSE
    /\ pending' = RemoveAt(pending, i)
    /\ UNCHANGED finalVars
    /\ Record("SendTimerFires", i)
    /\ UNCHANGED <<isGeneratingMetrics, showDryRunPrompt, dryRunDone, isDryRunning,
                   apiAvailable, healthPending>>

\* The setTimeout callback of handleSend (offline mode)
SendTimerFires(i) ==
    /\ i \in 1..Len(pending)
    /\ pending[i].kind = "timer"
    /\ ApplyOfflineResponse(pending[i])
    /\ isTyping' = FALSE
    /\ pending' = RemoveAt(pending, i)
    /\ UNCHANGED finalVars
    /\ Record("SendTimerFires", i)
    /\ UNCHANGED <<isGeneratingMetrics, showDryRunPrompt, dryRunDone, isDryRunning,
                   apiAvailable, healthPending>>

\* The configUpdates built from a generateMetrics reply
ServiceDerivedUpdates(description, metricsData) ==
    LET metrics == MapServiceMetrics(metricsData.metrics)
    IN  [capabilityWhat |-> description, description |-> description,
         name |-> metricsData.eval_name, metrics |-> metrics,
         rationale |-> MapServiceRationale(metricsData.metrics),
         metricThresholds |-> metricThresholdsOf(metrics)]

\* sendChatMessage resolves inside handleSend
ChatResolves(i, result) ==
    /\ i \in 1..Len(pending)
    /\ pending[i].kind = "sendChatMessage"
    /\ messages' = Append(messages, Assistant(result.message))
    /\ isTyping' = FALSE
    /\ IF result.type = "refine"
       THEN IF result.is_detailed_enough
            THEN /\ setPhase(METRICS)
                 /\ isGeneratingMetrics' = TRUE
                 /\ pending' = [pending EXCEPT ![i].kind = "generateMetrics"]
                 /\ UNCHANGED <<evalConfig, metricOrigin>>
            ELSE /\ updateConfig([capabilityWhat |-> pending[i].userMsg,
                                  refinedPrompt |-> result.refined_prompt])
                 /\ setPhase(REFINE)
                 /\ pending' = RemoveAt(pending, i)
                 /\ UNCHANGED <<isGeneratingMetrics, metricOrigin>>
       ELSE /\ LET withPrompt == IF result.refined_prompt # ""
                                 THEN [refinedPrompt |-> result.refined_prompt]
                                 ELSE EmptyObject
                   withMetrics == IF result.hasMetrics
                                  THEN [metrics |-> MapServiceMetrics(result.metrics),
                                        rationale |-> MapServiceRationale(result.metrics)]
                                  ELSE EmptyObject
               IN  /\ updateConfig(Merge(Merge(withPrompt, result.config_updates),
                                          withMetrics))
                   /\ TrackOrigin(withMetrics)
            /\ pending' = RemoveAt(pending, i)
            /\ UNCHANGED <<phase, highestPhase, isGeneratingMetrics>>
    /\ UNCHANGED finalVars
    /\ Record("ChatResolves", [i |-> i, result |-> result])
    /\ UNCHANGED <<showDryRunPrompt, dryRunDone, isDryRunning, apiAvailable,
                   healthPending>>

\* generateMetrics resolves: inside handleSend or handleConfirmRefinedPrompt
GenerateMetricsResolves(i, metricsData) ==
    /\ i \in 1..Len(pending)
    /\ pending[i].kind = "generateMetrics"
    /\ messages' = Append(messages, Assistant(metricsData.message \o ": review the suggested metrics"))
    /\ IF pending[i].handler = "handleSend"
       THEN /\ updateConfig(ServiceDerivedUpdates(pending[i].userMsg, metricsData))
            /\ isTyping' = FALSE
       ELSE /\ updateConfig(Merge(ServiceDerivedUpdates(pending[i].userMsg, metricsData),
                                  [capabilityWhy |-> WhyText(metricsData.eval_name)]))
            /\ UNCHANGED isTyping
    /\ TrackOrigin(ServiceDerivedUpdates(pending[i].userMsg, metricsData))
    /\ isGeneratingMetrics' = FALSE
    /\ pending' = RemoveAt(pending, i)
    /\ UNCHANGED finalVars
    /\ Record("GenerateMetricsResolves", i)
    /\ UNCHANGED <<phase, highestPhase, showDryRunPrompt, dryRunDone, isDryRunning,
                   apiAvailable, healthPending>>

\* The offline fallback of handleConfirmRefinedPrompt
ConfirmOffline(finalDescription) ==
    LET derived == Derivation(finalDescription)
        updates == DerivedUpdates(finalDescription, derived.suggestedName,
                                  derived.metrics, derived.rationale)
    IN  /\ updateConfig(updates)
        /\ TrackOrigin(updates)
        /\ messages' = Append(messages, Assistant("suggested metrics with rationale"))
        /\ isGeneratingMetrics' = FALSE

\* sendChatMessage or generateMetrics throws inside handleSend: the catch
\* block, then setIsTyping(false)
SendCallRejects(i) ==
    /\ i \in 1..Len(pending)
    /\ pending[i].handler = "handleSend"
    /\ pending[i].kind \in {"sendChatMessage", "generateMetrics"}
    /\ ApplyOfflineResponse(pending[i])
    /\ isTyping' = FALSE
    /\ pending' = RemoveAt(pending, i)
    /\ UNCHANGED finalVars
    /\ Record("SendCallRejects", i)
    /\ UNCHANGED <<isGeneratingMetrics, showDryRunPrompt, dryRunDone, isDryRunning,
                   apiAvailable, healthPending>>

\* generateMetrics throws inside handleConfirmRefinedPrompt: offline fallback
ConfirmCallRejects(i) ==
    /\ i \in 1..Len(pending)
    /\ pending[i].handler = "handleConfirmRefinedPrompt"
    /\ pending[i].kind = "generateMetrics"
    /\ ConfirmOffline(pending[i].userMsg)
    /\ pending' = RemoveAt(pending, i)
    /\ UNCHANGED finalVars
    /\ Record("ConfirmCallRejects", i)
    /\ UNCHANGED <<phase, highestPhase, isTyping, showDryRunPrompt, dryRunDone,
                   isDryRunning, apiAvailable, healthPending>>

\* "Use This & Generate Metrics" in the REFINE panel
handleConfirmRefinedPrompt ==
    /\ phase = REFINE
    /\ ~isGeneratingMetrics
    /\ Len(messages) < MaxMessages
    /\ LET finalDescription == OrElse(evalConfig.refinedPrompt, evalConfig.capabilityWhat)
       IN  /\ setPhase(METRICS)
           /\ IF apiAvailable
              THEN /\ Len(pending) < MaxPending
                   /\ isGeneratingMetrics' = TRUE
                   /\ pending' = Append(pending,
                          Continuation("generateMetrics", "handleConfirmRefinedPrompt",
                                       finalDescription))
                   /\ UNCHANGED <<messages, evalConfig, metricOrigin>>
              ELSE /\ ConfirmOffline(finalDescription)
                   /\ UNCHANGED pending
    /\ UNCHANGED finalVars
    /\ Record("handleConfirmRefinedPrompt", "")
    /\ UNCHANGED <<isTyping, showDryRunPrompt, dryRunDone, isDryRunning, apiAvailable,
                   healthPending>>

\* Editing the textarea of the REFINE panel
EditRefinedPrompt(text) ==
    /\ phase = REFINE
    /\ updateConfig([refinedPrompt |-> text])
    /\ UNCHANGED finalVars
    /\ Record("EditRefinedPrompt", text)
    /\ UNCHANGED <<phase, highestPhase, messages, isTyping, isGeneratingMetrics,
                   showDryRunPrompt, dryRunDone, isDryRunning, apiAvailable,
                   healthPending, pending, metricOrigin>>

advanceToConnect ==
    /\ showDryRunPrompt' = FALSE
    /\ messages' = Append(messages, Assistant("connect your model"))
    /\ setPhase(CONNECT)

\* Variant: the length test admits the empty array
hasSampleDataAlways == Len(evalConfig.sampleData) >= 0

hasSampleData == Len(evalConfig.sampleData) > 0

hasMetrics == Len(evalConfig.metrics) > 0

\* Variant: Continue in CONNECT goes to the final review
handlePhaseAdvanceSkipping ==
    /\ phase \in {METRICS, SAMPLE_DATA, CONNECT, MANAGE}
    /\ phase = SAMPLE_DATA => ~isDryRunning
    /\ Len(messages) < MaxMessages
    /\ IF phase = METRICS
       THEN /\ messages' = Append(messages, Assistant("add sample data"))
            /\ setPhase(SAMPLE_DATA)
            /\ UNCHANGED showDryRunPrompt
       ELSE IF phase = SAMPLE_DATA
       THEN IF hasSampleData /\ hasMetrics /\ ~dryRunDone
            THEN /\ showDryRunPrompt' = TRUE
                 /\ UNCHANGED <<messages, phase, highestPhase>>
            ELSE advanceToConnect
       ELSE IF phase = CONNECT
       THEN /\ messages' = Append(messages, Assistant("ownership and management"))
            /\ setPhase(REVIEW)
            /\ UNCHANGED showDryRunPrompt
       ELSE /\ messages' = Append(messages, Assistant("ready for review"))
            /\ setPhase(REVIEW)
            /\ UNCHANGED showDryRunPrompt
    /\ UNCHANGED finalVars
    /\ Record("handlePhaseAdvance", "")
    /\ UNCHANGED <<isTyping, isGeneratingMetrics, dryRunDone, isDryRunning,
                   apiAvailable, healthPending, evalConfig, pending, metricOrigin>>

\* The Continue button of the METRICS, SAMPLE_DATA, CONNECT and MANAGE panels
handlePhaseAdvance ==
    /\ phase \in {METRICS, SAMPLE_DATA, CONNECT, MANAGE}
    /\ phase = SAMPLE_DATA => ~isDryRunning
    /\ Len(messages) < MaxMessages
    /\ IF phase = METRICS
       THEN /\ messages' = Append(messages, Assistant("add sample data"))
            /\ setPhase(SAMPLE_DATA)
            /\ UNCHANGED showDryRunPrompt
       ELSE IF phase = SAMPLE_DATA
       THEN IF hasSampleData /\ hasMetrics /\ ~dryRunDone
            THEN /\ showDryRunPrompt' = TRUE
                 /\ UNCHANGED <<messages, phase, highestPhase>>
            ELSE advanceToConnect
       ELSE IF phase = CONNECT
       THEN /\ messages' = Append(messages, Assistant("ownership and management"))
            /\ setPhase(MANAGE)
            /\ UNCHANGED showDryRunPrompt
       ELSE /\ messages' = Append(messages, Assistant("ready for review"))
            /\ setPhase(REVIEW)
            /\ UNCHANGED showDryRunPrompt
    /\ UNCHANGED finalVars
    /\ Record("handlePhaseAdvance", "")
    /\ UNCHANGED <<isTyping, isGeneratingMetrics, dryRunDone, isDryRunning,
                   apiAvailable, healthPending, evalConfig, pending, metricOrigin>>

(***************************************************************************)
(* Metric list editor (METRICS panel and final review)                     *)
(***************************************************************************)
EditorShown == phase \in {METRICS, REVIEW}

EditorFrame ==
    UNCHANGED <<phase, highestPhase, messages, isTyping, isGeneratingMetrics,
                showDryRunPrompt, dryRunDone, isDryRunning, apiAvailable,
                healthPending, pending>>

\* handleMetricChange(index, 'field' | 'measurement', value)
handleMetricChange(index, field, value) ==
    /\ EditorShown
    /\ index \in 1..Len(evalConfig.metrics)
    /\ LET newMetrics == [evalConfig.metrics EXCEPT ![index] =
                             Merge(@, IF field = "field" THEN [field |-> value]
                                      ELSE [measurement |-> value])]
       IN  updateConfig([metrics |-> newMetrics])
    /\ UNCHANGED metricOrigin
    /\ UNCHANGED finalVars
    /\ Record("handleMetricChange", [index |-> index, field |-> field, value |-> value])
    /\ EditorFrame

\* Variant: the new metric is put first
handleAddMetricFirst ==
    /\ EditorShown
    /\ Len(evalConfig.metrics) < MaxMetrics
    /\ updateConfig(
           [metrics |-> <<[field |-> "", measurement |-> <<>>, description |-> "",
                           thresholds |-> [baseline |-> 80, target |-> 95]]>>
                        \o evalConfig.metrics])
    /\ metricOrigin' = <<NoRationale>> \o metricOrigin
    /\ UNCHANGED finalVars
    /\ Record("handleAddMetric", "")
    /\ EditorFrame

handleAddMetric ==
    /\ EditorShown
    /\ Len(evalConfig.metrics) < MaxMetrics
    /\ updateConfig(
           [metrics |-> Append(evalConfig.metrics,
               [field |-> "", measurement |-> <<>>, description |-> "",
                thresholds |-> [baseline |-> 80, target |-> 95]])])
    /\ metricOrigin' = Append(metricOrigin, NoRationale)
    /\ UNCHANGED finalVars
    /\ Record("handleAddMetric", "")
    /\ EditorFrame

\* Variant: the rationale array is left as it is
handleRemoveMetricKeepingRationale(index) ==
    /\ EditorShown
    /\ index \in 1..Len(evalConfig.metrics)
    /\ updateConfig([metrics |-> RemoveAt(evalConfig.metrics, index)])
    /\ metricOrigin' = RemoveAt(metricOrigin, index)
    /\ UNCHANGED finalVars
    /\ Record("handleRemoveMetric", index)
    /\ EditorFrame

handleRemoveMetric(index) ==
    /\ EditorShown
    /\ index \in 1..Len(evalConfig.metrics)
    /\ LET newRationale == IF index <= Len(evalConfig.rationale)
                           THEN RemoveAt(evalConfig.rationale, index)
                           ELSE evalConfig.rationale
       IN  updateConfig([metrics |-> RemoveAt(evalConfig.metrics, index),
                         rationale |-> newRationale])
    /\ metricOrigin' = RemoveAt(metricOrigin, index)
    /\ UNCHANGED finalVars
    /\ Record("handleRemoveMetric", index)
    /\ EditorFrame

\* handleThresholdChange(index, 'baseline' | 'target', value)
handleThresholdChange(index, field, value) ==
    /\ EditorShown
    /\ index \in 1..Len(evalConfig.metrics)
    /\ LET newMetrics == [evalConfig.metrics EXCEPT ![index].thresholds =
                             Merge(@, IF field = "baseline"
                                      THEN [baseline |-> ParseIntOrZero(value)]
                                      ELSE [target |-> ParseIntOrZero(value)])]
       IN  updateConfig([metrics |-> newMetrics])
    /\ UNCHANGED metricOrigin
    /\ UNCHANGED finalVars
    /\ Record("handleThresholdChange", [index |-> index, field |-> field, value |-> value])
    /\ EditorFrame

(***************************************************************************)
(* Sample data panel and validation against sample data                    *)
(***************************************************************************)
SampleFrame ==
    UNCHANGED <<phase, highestPhase, messages, isTyping, isGeneratingMetrics,
                showDryRunPrompt, dryRunDone, isDryRunning, apiAvailable,
                healthPending, pending>>

\* The Data Source select of the SAMPLE_DATA panel
SelectDatasetSource(source) ==
    /\ phase = SAMPLE_DATA
    /\ source # evalConfig.datasetSource
    /\ updateConfig([datasetSource |-> source])
    /\ UNCHANGED metricOrigin
    /\ UNCHANGED finalVars
    /\ Record("SelectDatasetSource", source)
    /\ SampleFrame

handleAddSampleRow ==
    /\ phase = SAMPLE_DATA
    /\ evalConfig.datasetSource = "manual"
    /\ Len(evalConfig.sampleData) < MaxRows
    /\ updateConfig([sampleData |-> Append(evalConfig.sampleData,
                        [input |-> "", expected_output |-> "", context |-> ""])])
    /\ UNCHANGED metricOrigin
    /\ UNCHANGED finalVars
    /\ Record("handleAddSampleRow", "")
    /\ SampleFrame

\* Inputs of the cells of a sample row
SampleCellEdits == {"invoice 17"}

\* handleSampleDataChange(index, 'input' | 'expected_output' | 'context', value)
handleSampleDataChange(index, field, value) ==
    /\ phase = SAMPLE_DATA
    /\ evalConfig.datasetSource = "manual"
    /\ index \in 1..Len(evalConfig.sampleData)
    /\ updateConfig([sampleData |->
           [evalConfig.sampleData EXCEPT ![index] =
               Merge(@, IF field = "input" THEN [input |-> value]
                        ELSE IF field = "expected_output" THEN [expected_output |-> value]
                        ELSE [context |-> value])]])
    /\ UNCHANGED metricOrigin
    /\ UNCHANGED finalVars
    /\ Record("handleSampleDataChange", [index |-> index, field |-> field, value |-> value])
    /\ SampleFrame

\* Inputs of the Google Sheet URL and Hive table fields
DatasetUrlEdits == {"", "hive://db.table"}

\* The Google Sheet URL input and the Hive table input of the SAMPLE_DATA panel
EditDatasetUrl(value) ==
    /\ phase = SAMPLE_DATA
    /\ evalConfig.datasetSource \in {"gsheet", "hive"}
    /\ value # evalConfig.datasetUrl
    /\ updateConfig([datasetUrl |-> value])
    /\ UNCHANGED metricOrigin
    /\ UNCHANGED finalVars
    /\ Record("EditDatasetUrl", value)
    /\ SampleFrame

handleRemoveSampleRow(index) ==
    /\ phase = SAMPLE_DATA
    /\ evalConfig.datasetSource = "manual"
    /\ index \in 1..Len(evalConfig.sampleData)
    /\ updateConfig([sampleData |-> RemoveAt(evalConfig.sampleData, index)])
    /\ UNCHANGED metricOrigin
    /\ UNCHANGED finalVars
    /\ Record("handleRemoveSampleRow", index)
    /\ SampleFrame

\* "Yes, validate" on the offer: up to the await of validateMetrics
handleDryRun ==
    /\ phase = SAMPLE_DATA
    /\ showDryRunPrompt
    /\ ~isDryRunning
    /\ Len(pending) < MaxPending
    /\ showDryRunPrompt' = FALSE
    /\ isDryRunning' = TRUE
    /\ messages' = Append(messages, Assistant("running metric validation"))
    /\ pending' = Append(pending, Continuation("validateMetrics", "handleDryRun", ""))
    /\ UNCHANGED finalVars
    /\ Record("handleDryRun", "")
    /\ UNCHANGED <<phase, highestPhase, isTyping, isGeneratingMetrics, dryRunDone,
                   apiAvailable, healthPending, evalConfig, metricOrigin>>

\* Variant: the resolved branch does not record that validation was run
ValidateResolvesNotDone(i, assessment) ==
    /\ i \in 1..Len(pending)
    /\ pending[i].kind = "validateMetrics"
    /\ messages' = Append(messages, Assistant("validation result: " \o assessment))
    /\ isDryRunning' = FALSE
    /\ pending' = RemoveAt(pending, i)
    /\ UNCHANGED finalVars
    /\ Record("ValidateResolves", [i |-> i, result |-> assessment])
    /\ UNCHANGED <<phase, highestPhase, isTyping, isGeneratingMetrics, showDryRunPrompt,
                   dryRunDone, apiAvailable, healthPending, evalConfig, metricOrigin>>

\* validateMetrics resolves with an assessment
ValidateResolves(i, assessment) ==
    /\ i \in 1..Len(pending)
    /\ pending[i].kind = "validateMetrics"
    /\ messages' = Append(messages, Assistant("validation result: " \o assessment))
    /\ isDryRunning' = FALSE
    /\ dryRunDone' = TRUE
    /\ pending' = RemoveAt(pending, i)
    /\ UNCHANGED finalVars
    /\ Record("ValidateResolves", [i |-> i, result |-> assessment])
    /\ UNCHANGED <<phase, highestPhase, isTyping, isGeneratingMetrics, showDryRunPrompt,
                   apiAvailable, healthPending, evalConfig, metricOrigin>>

\* Variant: the catch block leaves the running flag set
ValidateRejectsStillRunning(i) ==
    /\ i \in 1..Len(pending)
    /\ pending[i].kind = "validateMetrics"
    /\ messages' = Append(messages, Assistant("quick validation (API unavailable)"))
    /\ dryRunDone' = TRUE
    /\ pending' = RemoveAt(pending, i)
    /\ UNCHANGED finalVars
    /\ Record("ValidateRejects", i)
    /\ UNCHANGED <<phase, highestPhase, isTyping, isGeneratingMetrics, showDryRunPrompt,
                   isDryRunning, apiAvailable, healthPending, evalConfig, metricOrigin>>

\* validateMetrics throws
ValidateRejects(i) ==
    /\ i \in 1..Len(pending)
    /\ pending[i].kind = "validateMetrics"
    /\ messages' = Append(messages, Assistant("quick validation (API unavailable)"))
    /\ isDryRunning' = FALSE
    /\ dryRunDone' = TRUE
    /\ pending' = RemoveAt(pending, i)
    /\ UNCHANGED finalVars
    /\ Record("ValidateRejects", i)
    /\ UNCHANGED <<phase, highestPhase, isTyping, isGeneratingMetrics, showDryRunPrompt,
                   apiAvailable, healthPending, evalConfig, metricOrigin>>

\* "Skip for now" on the offer
handleSkipDryRun ==
    /\ phase = SAMPLE_DATA
    /\ showDryRunPrompt
    /\ dryRunDone' = TRUE
    /\ advanceToConnect
    /\ UNCHANGED finalVars
    /\ Record("handleSkipDryRun", "")
    /\ UNCHANGED <<isTyping, isGeneratingMetrics, isDryRunning, apiAvailable,
                   healthPending, evalConfig, pending, metricOrigin>>

(***************************************************************************)
(* Section completeness and the phase indicator                            *)
(***************************************************************************)
\* Maps phase pills to the phases they represent
PILL_PHASES ==
    [describe |-> {OBJECTIVE, REFINE}, metrics |-> {METRICS}, data |-> {SAMPLE_DATA},
     connect |-> {CONNECT}, manage |-> {MANAGE}, review |-> {REVIEW}]

\* issues.key = text when the condition holds
Issue(condition, key, text) == IF condition THEN [k \in {key} |-> text] ELSE EmptyObject

\* getPhaseValidation() with the evalConfig its closure reads: the issues
\* object, one property for each incomplete section
getPhaseValidation(cfg) ==
    LET describe == Issue(cfg.description = "" /\ cfg.capabilityWhat = ""
                              /\ cfg.refinedPrompt = "",
                          "describe", "Missing product description")
        metrics  == Issue(Len(cfg.metrics) = 0
                              \/ \A i \in 1..Len(cfg.metrics) : cfg.metrics[i].field = "",
                          "metrics", "No metrics defined")
        data     == Issue(cfg.datasetSource = "hive" /\ cfg.datasetUrl = "",
                          "data", "Missing Hive table URL")
        connect  == Issue(cfg.modelEndpoint = "", "connect", "Missing model endpoint")
        manage   == Issue(cfg.team = "", "manage", "Missing team assignment")
    IN  Merge(Merge(Merge(Merge(describe, metrics), data), connect), manage)

\* const validation = getPhaseValidation()
validation == getPhaseValidation(evalConfig)

\* The pillPhaseIndex object of pillClass
pillPhaseIndex(pillKey) ==
    CASE pillKey = "describe" -> phaseIndex(OBJECTIVE)
      [] pillKey = "metrics"  -> phaseIndex(METRICS)
      [] pillKey = "data"     -> phaseIndex(SAMPLE_DATA)
      [] pillKey = "connect"  -> phaseIndex(CONNECT)
      [] pillKey = "manage"   -> phaseIndex(MANAGE)
      [] pillKey = "review"   -> phaseIndex(REVIEW)

\* pillClass(pillKey, phases): the class attribute of a pill
pillClass(pillKey, phases) ==
    LET isActive     == phase \in phases
        isIncomplete == pillKey \in DOMAIN validation
        highestIdx   == phaseIndex(highestPhase)
        wasReached   == pillPhaseIndex(pillKey) <= highestIdx
        cls          == "phase-step clickable" \o (IF isActive THEN " active" ELSE "")
    IN  IF isIncomplete /\ wasReached /\ ~isActive
        THEN cls \o " incomplete"
        ELSE IF ~isIncomplete /\ wasReached /\ ~isActive
        THEN cls \o " completed"
        ELSE cls

\* The phase indicator as rendered: the class of each pill.  The review pill
\* is rendered with pillClass('review', [])
PhaseIndicator ==
    [pill \in Pills |-> pillClass(pill, IF pill = "review" THEN {} ELSE PILL_PHASES[pill])]

(***************************************************************************)
(* Fields edited in the panels                                             *)
(***************************************************************************)
DescriptionEdits == {"", "support bot for billing questions"}

EndpointEdits == {"", "https://model.example/v1/chat"}

TeamChoices == {"", "Lending"}

NameEdits == {"", "billing_bot_eval"}

\* Usernames of MOCK_EMPLOYEES
OwnerChoices == {CURRENT_USER, "sarachen"}

\* The options of the schedule select
ScheduleChoices == {"manual", "daily", "weekly", "on_deploy"}

AlertChannelEdits == {"", "#mft-ai-alerts"}

\* The views the Header navigates to
Views == {"list", "create"}

ConfigEditFrame ==
    /\ UNCHANGED <<phase, highestPhase, messages, isTyping, isGeneratingMetrics,
                   showDryRunPrompt, dryRunDone, isDryRunning, apiAvailable,
                   healthPending, pending, metricOrigin>>
    /\ UNCHANGED finalVars

\* The Description textarea of the METRICS panel and of the final review
EditDescription(text) ==
    /\ phase \in {METRICS, REVIEW}
    /\ text # evalConfig.description
    /\ updateConfig([description |-> text])
    /\ Record("EditDescription", text)
    /\ ConfigEditFrame

\* The Model Endpoint input of the CONNECT panel
EditModelEndpoint(value) ==
    /\ phase = CONNECT
    /\ value # evalConfig.modelEndpoint
    /\ updateConfig([modelEndpoint |-> value])
    /\ Record("EditModelEndpoint", value)
    /\ ConfigEditFrame

\* The Team select of the MANAGE panel and of the final review
SelectTeam(value) ==
    /\ phase \in {MANAGE, REVIEW}
    /\ value # evalConfig.team
    /\ updateConfig([team |-> value])
    /\ Record("SelectTeam", value)
    /\ ConfigEditFrame

\* The Eval Name input of the METRICS panel and of the final review
EditName(value) ==
    /\ phase \in {METRICS, REVIEW}
    /\ value # evalConfig.name
    /\ updateConfig([name |-> value])
    /\ Record("EditName", value)
    /\ ConfigEditFrame

\* owner: null
NoOwner == "null"

\* renderOwnerField (MANAGE panel and final review): the clear button, shown
\* while the record has an owner
ClearOwner ==
    /\ phase \in {MANAGE, REVIEW}
    /\ evalConfig.owner # NoOwner
    /\ updateConfig([owner |-> NoOwner])
    /\ Record("ClearOwner", NoOwner)
    /\ ConfigEditFrame

\* renderOwnerField: OwnerSearchInput, shown while the record has no owner
SelectOwner(emp) ==
    /\ phase \in {MANAGE, REVIEW}
    /\ evalConfig.owner = NoOwner
    /\ updateConfig([owner |-> emp])
    /\ Record("SelectOwner", emp)
    /\ ConfigEditFrame

\* The Run Schedule select of the MANAGE panel and of the final review
SelectSchedule(value) ==
    /\ phase \in {MANAGE, REVIEW}
    /\ value # evalConfig.schedule
    /\ updateConfig([schedule |-> value])
    /\ Record("SelectSchedule", value)
    /\ ConfigEditFrame

\* The "Alert on regression" checkbox of the MANAGE panel and of the final
\* review: e.target.checked is the opposite of what is shown
ToggleAlertOnRegression ==
    /\ phase \in {MANAGE, REVIEW}
    /\ updateConfig([alertOnRegression |-> ~evalConfig.alertOnRegression])
    /\ Record("ToggleAlertOnRegression", ~evalConfig.alertOnRegression)
    /\ ConfigEditFrame

\* The Alert Channel input, rendered while alertOnRegression is set
EditAlertChannel(value) ==
    /\ phase \in {MANAGE, REVIEW}
    /\ evalConfig.alertOnRegression
    /\ value # evalConfig.alertChannel
    /\ updateConfig([alertChannel |-> value])
    /\ Record("EditAlertChannel", value)
    /\ ConfigEditFrame

(***************************************************************************)
(* Final review: create, run, done; App.handleCreateEval (onComplete)      *)
(***************************************************************************)
\* Replies of POST /api/evals: result?.eval?.id, "" when the reply has none
CreateResults == {[id |-> "eval-1"], [id |-> ""]}

\* Replies of POST /api/evals/{id}/run (result.run)
RunResults == {[passed_baseline |-> TRUE], [passed_baseline |-> FALSE]}

\* The record App keeps when its createEval call fails (id: String(Date.now()));
\* name: evalConfig.evalName || evalConfig.name || 'New Eval', where evalName
\* is a property only a reply's config_updates can have added
fallbackEval(cfg) ==
    [id |-> "now",
     name |-> OrElse(IF "evalName" \in DOMAIN cfg THEN cfg.evalName ELSE "",
                     OrElse(cfg.name, "New Eval")),
     team |-> OrElse(cfg.team, ""),
     status |-> "draft"]

\* A persistence request: the call, the handler that issued it, and the
\* sections getPhaseValidation reports incomplete for the record it carries
Request(call, by, cfg) ==
    [call |-> call, by |-> by, issues |-> DOMAIN getPhaseValidation(cfg)]

\* The explored sessions issue at most MaxRequests persistence requests by click
ClickAllowed == Len(requests) < MaxRequests

\* The continuations that still have an effect after GuidedEval is unmounted
Surviving(conts) ==
    LET ofApp(c) == c.handler \in {"handleCreateEval", "App.handleCreateEval",
                                     "App.fetchEvals"}
    IN  SelectSeq(conts, ofApp)

\* onComplete(cfg) = App.handleCreateEval(cfg) up to its await: the request is
\* issued; rest is the pending list the new continuation is added to
onComplete(cfg, rest) ==
    /\ requests' = Append(requests, Request("createEval", "App.handleCreateEval", cfg))
    /\ pending' = Append(rest, PersistenceCall("createEval", "App.handleCreateEval", cfg))

\* The Create Eval button of the final review, up to the await of createEval.
\* The button is rendered enabled when no eval was created, getPhaseValidation
\* reports no issue and isCreating is false
handleCreateEval ==
    /\ Mounted
    /\ phase = REVIEW
    /\ createdEvalId = NoEval
    /\ DOMAIN getPhaseValidation(evalConfig) = {}
    /\ ~isCreating
    /\ isCreating' = TRUE
    /\ requests' = Append(requests, Request("createEval", "handleCreateEval", evalConfig))
    /\ pending' = Append(pending, PersistenceCall("createEval", "handleCreateEval", evalConfig))
    /\ Record("handleCreateEval", "")
    /\ UNCHANGED <<phase, highestPhase, messages, isTyping, isGeneratingMetrics,
                   showDryRunPrompt, dryRunDone, isDryRunning, apiAvailable,
                   healthPending, evalConfig, createdEvalId, isRunning, runResult,
                   view, evals, metricOrigin>>

\* createEval throws inside handleCreateEval: the catch block, then finally
CreateRejects(i) ==
    /\ i \in 1..Len(pending)
    /\ pending[i].kind = "createEval"
    /\ pending[i].handler = "handleCreateEval"
    /\ messages' = IF Mounted
                   THEN Append(messages, Assistant("API save failed: the eval config has been preserved"))
                   ELSE messages
    /\ onComplete(pending[i].evalConfig, RemoveAt(pending, i))
    /\ isCreating' = (IF Mounted THEN FALSE ELSE isCreating)
    /\ Record("CreateRejects", i)
    /\ UNCHANGED <<phase, highestPhase, isTyping, isGeneratingMetrics, showDryRunPrompt,
                   dryRunDone, isDryRunning, apiAvailable, healthPending, evalConfig,
                   createdEvalId, isRunning, runResult, view, evals, metricOrigin>>

\* createEval resolves inside handleCreateEval, then finally
CreateResolves(i, result) ==
    /\ i \in 1..Len(pending)
    /\ pending[i].kind = "createEval"
    /\ pending[i].handler = "handleCreateEval"
    /\ LET cfg == pending[i].evalConfig
       IN  IF result.id # ""
           THEN /\ createdEvalId' = (IF Mounted THEN result.id ELSE createdEvalId)
                /\ messages' =
                       IF Mounted
                       THEN Append(messages, Assistant(
                                "eval created: " \o result.id \o
                                (IF cfg.modelEndpoint # "" THEN ", click Run Eval"
                                 ELSE ", no model endpoint configured")))
                       ELSE messages
                /\ pending' = RemoveAt(pending, i)
                /\ UNCHANGED requests
           ELSE /\ onComplete(cfg, RemoveAt(pending, i))
                /\ UNCHANGED <<createdEvalId, messages>>
    /\ isCreating' = (IF Mounted THEN FALSE ELSE isCreating)
    /\ Record("CreateResolves", [i |-> i, result |-> result])
    /\ UNCHANGED <<phase, highestPhase, isTyping, isGeneratingMetrics, showDryRunPrompt,
                   dryRunDone, isDryRunning, apiAvailable, healthPending, evalConfig,
                   isRunning, runResult, view, evals, metricOrigin>>

\* The Done button of the final review: onClick={() => onComplete(evalConfig)}
Done ==
    /\ Mounted
    /\ phase = REVIEW
    /\ createdEvalId # NoEval
    /\ onComplete(evalConfig, pending)
    /\ Record("Done", "")
    /\ UNCHANGED <<phase, highestPhase, messages, isTyping, isGeneratingMetrics,
                   showDryRunPrompt, dryRunDone, isDryRunning, apiAvailable,
                   healthPending, evalConfig, isCreating, createdEvalId, isRunning,
                   runResult, view, evals, metricOrigin>>

\* What no step of App changes
AppFrame ==
    UNCHANGED <<phase, highestPhase, messages, isTyping, isGeneratingMetrics,
                showDryRunPrompt, dryRunDone, isDryRunning, apiAvailable,
                healthPending, evalConfig, isCreating, createdEvalId, isRunning,
                runResult, metricOrigin>>

\* createEval resolves inside App.handleCreateEval: fetchEvals() is awaited
AppCreateResolves(i) ==
    /\ i \in 1..Len(pending)
    /\ pending[i].kind = "createEval"
    /\ pending[i].handler = "App.handleCreateEval"
    /\ pending' = [pending EXCEPT ![i].kind = "listEvals"]
    /\ requests' = Append(requests, Request("listEvals", "App.fetchEvals", pending[i].evalConfig))
    /\ Record("AppCreateResolves", i)
    /\ UNCHANGED <<view, evals>>
    /\ AppFrame

\* createEval throws inside App.handleCreateEval: the fallback record, then
\* setView('list'), which unmounts GuidedEval
AppCreateRejects(i) ==
    /\ i \in 1..Len(pending)
    /\ pending[i].kind = "createEval"
    /\ pending[i].handler = "App.handleCreateEval"
    /\ evals' = Append(evals, fallbackEval(pending[i].evalConfig))
    /\ view' = "list"
    /\ pending' = Surviving(RemoveAt(pending, i))
    /\ Record("AppCreateRejects", i)
    /\ UNCHANGED requests
    /\ AppFrame

\* After fetchEvals: handleCreateEval goes on to setView('list'), which
\* unmounts GuidedEval; a fetch of the mount effect or of Refresh has nothing
\* after it
AfterFetch(i) ==
    IF pending[i].handler = "App.handleCreateEval"
    THEN /\ view' = "list"
         /\ pending' = Surviving(RemoveAt(pending, i))
    ELSE /\ view' = view
         /\ pending' = RemoveAt(pending, i)

\* listEvals resolves inside fetchEvals
ListEvalsResolves(i, result) ==
    /\ i \in 1..Len(pending)
    /\ pending[i].kind = "listEvals"
    /\ evals' = result
    /\ AfterFetch(i)
    /\ Record("ListEvalsResolves", [i |-> i, result |-> result])
    /\ UNCHANGED requests
    /\ AppFrame

\* listEvals throws inside fetchEvals (demo mode)
ListEvalsRejects(i) ==
    /\ i \in 1..Len(pending)
    /\ pending[i].kind = "listEvals"
    /\ evals' = DEMO_EVALS
    /\ AfterFetch(i)
    /\ Record("ListEvalsRejects", i)
    /\ UNCHANGED requests
    /\ AppFrame

\* onNavigate = setView: "My Evals" and "+ Create New" of the Header. Every
\* view but 'guided' renders EvalList, so a change of view unmounts GuidedEval
onNavigate(target) ==
    /\ target # view
    /\ view' = target
    /\ pending' = (IF Mounted THEN Surviving(pending) ELSE pending)
    /\ Record("onNavigate", target)
    /\ UNCHANGED <<evals, requests>>
    /\ AppFrame

\* onCancel = () => setView('list'): the Cancel button of the final review and
\* the close button beside the phase indicator
onCancel ==
    /\ Mounted
    /\ view' = "list"
    /\ pending' = Surviving(pending)
    /\ Record("onCancel", "")
    /\ UNCHANGED <<evals, requests>>
    /\ AppFrame

\* The explored sessions keep at most MaxFetching calls of fetchEvals in flight
FetchAllowed ==
    Cardinality({i \in 1..Len(pending) : pending[i].kind = "listEvals"}) < MaxFetching

\* onRefresh = fetchEvals, up to the await of listEvals. EvalList calls it
\* from its Refresh button and from the continuations of its handleRunEval
\* and handleDeleteEval, which complete in any view, the guided view included,
\* when their calls were started before the view was left
onRefresh ==
    /\ pending' = Append(pending, FetchCall)
    /\ Record("onRefresh", "")
    /\ UNCHANGED <<view, evals, requests>>
    /\ AppFrame

\* The Run Eval button of the final review, up to the await of runEval
handleRunEval ==
    /\ Mounted
    /\ phase = REVIEW
    /\ createdEvalId # NoEval
    /\ ~isRunning
    /\ evalConfig.modelEndpoint # ""
    /\ isRunning' = TRUE
    /\ runResult' = NoRun
    /\ messages' = Append(messages, Assistant("running eval"))
    /\ requests' = Append(requests, Request("runEval", "handleRunEval", evalConfig))
    /\ pending' = Append(pending, PersistenceCall("runEval", "handleRunEval", evalConfig))
    /\ Record("handleRunEval", "")
    /\ UNCHANGED <<phase, highestPhase, isTyping, isGeneratingMetrics, showDryRunPrompt,
                   dryRunDone, isDryRunning, apiAvailable, healthPending, evalConfig,
                   isCreating, createdEvalId, view, evals, metricOrigin>>

\* runEval resolves inside handleRunEval, then finally
RunResolves(i, run) ==
    /\ i \in 1..Len(pending)
    /\ pending[i].kind = "runEval"
    /\ runResult' = run
    /\ messages' = Append(messages, Assistant(
                       IF run.passed_baseline THEN "eval run complete: passed baseline"
                       ELSE "eval run complete: below baseline threshold"))
    /\ isRunning' = FALSE
    /\ pending' = RemoveAt(pending, i)
    /\ Record("RunResolves", [i |-> i, result |-> run])
    /\ UNCHANGED <<phase, highestPhase, isTyping, isGeneratingMetrics, showDryRunPrompt,
                   dryRunDone, isDryRunning, apiAvailable, healthPending, evalConfig,
                   isCreating, createdEvalId, view, evals, requests, metricOrigin>>

\* runEval throws inside handleRunEval, then finally
RunRejects(i) ==
    /\ i \in 1..Len(pending)
    /\ pending[i].kind = "runEval"
    /\ messages' = Append(messages, Assistant("eval run failed"))
    /\ isRunning' = FALSE
    /\ pending' = RemoveAt(pending, i)
    /\ Record("RunRejects", i)
    /\ UNCHANGED <<phase, highestPhase, isTyping, isGeneratingMetrics, showDryRunPrompt,
                   dryRunDone, isDryRunning, apiAvailable, healthPending, evalConfig,
                   isCreating, createdEvalId, runResult, view, evals, requests,
                   metricOrigin>>

(***************************************************************************)
(* The session                                                             *)
(***************************************************************************)
UserAction ==
    \/ \E inputValue \in Inputs : SendAllowed /\ handleSend(inputValue)
    \/ \E pill \in Pills : navigateToPhase(pill)
    \/ handleConfirmRefinedPrompt
    \/ \E text \in RefinedEdits : EditRefinedPrompt(text)
    \/ handlePhaseAdvance
    \/ \E i \in 1..MaxMetrics, v \in FieldEdits : handleMetricChange(i, "field", v)
    \/ \E i \in 1..MaxMetrics, v \in MeasurementEdits : handleMetricChange(i, "measurement", v)
    \/ handleAddMetric
    \/ \E i \in 1..MaxMetrics : handleRemoveMetric(i)
    \/ \E i \in 1..MaxMetrics, f \in {"baseline", "target"}, v \in ThresholdInputs :
           handleThresholdChange(i, f, v)
    \/ \E source \in {"csv", "manual", "gsheet", "hive"} : SelectDatasetSource(source)
    \/ handleAddSampleRow
    \/ \E i \in 1..MaxRows, field \in {"input", "expected_output", "context"},
          v \in SampleCellEdits : handleSampleDataChange(i, field, v)
    \/ \E value \in DatasetUrlEdits : EditDatasetUrl(value)
    \/ \E i \in 1..MaxRows : handleRemoveSampleRow(i)
    \/ handleDryRun
    \/ handleSkipDryRun
    \/ \E text \in DescriptionEdits : EditDescription(text)
    \/ \E value \in EndpointEdits : EditModelEndpoint(value)
    \/ \E value \in TeamChoices : SelectTeam(value)
    \/ \E value \in NameEdits : EditName(value)
    \/ ClearOwner
    \/ \E emp \in OwnerChoices : SelectOwner(emp)
    \/ \E value \in ScheduleChoices : SelectSchedule(value)
    \/ ToggleAlertOnRegression
    \/ \E value \in AlertChannelEdits : EditAlertChannel(value)
    \/ ClickAllowed /\ handleCreateEval
    \/ ClickAllowed /\ handleRunEval
    \/ ClickAllowed /\ Done
    \/ onCancel

\* The Header, rendered by App in every view, and the calls of EvalList
AppAction ==
    \/ \E target \in Views : onNavigate(target)
    \/ FetchAllowed /\ onRefresh

\* The persistence calls in flight at once: those the session issued and
\* the fetches of App
MaxInFlight == MaxRequests + MaxFetching

Completion ==
    \/ HealthResolves
    \/ HealthRejects
    \/ \E i \in 1..MaxPending : SendTimerFires(i)
    \/ \E i \in 1..MaxPending, result \in ChatResults : ChatResolves(i, result)
    \/ \E i \in 1..MaxPending, metricsData \in GenerateMetricsResults :
           GenerateMetricsResolves(i, metricsData)
    \/ \E i \in 1..MaxPending : SendCallRejects(i)
    \/ \E i \in 1..MaxPending : ConfirmCallRejects(i)
    \/ \E i \in 1..MaxPending, assessment \in Assessments : ValidateResolves(i, assessment)
    \/ \E i \in 1..MaxPending : ValidateRejects(i)
    \/ \E i \in 1..MaxInFlight, result \in CreateResults : CreateResolves(i, result)
    \/ \E i \in 1..MaxInFlight : CreateRejects(i)
    \/ \E i \in 1..MaxInFlight : AppCreateResolves(i)
    \/ \E i \in 1..MaxInFlight : AppCreateRejects(i)
    \/ \E i \in 1..MaxInFlight, result \in ListResults : ListEvalsResolves(i, result)
    \/ \E i \in 1..MaxInFlight : ListEvalsRejects(i)
    \/ \E i \in 1..MaxInFlight, run \in RunResults : RunResolves(i, run)
    \/ \E i \in 1..MaxInFlight : RunRejects(i)

Next == (Mounted /\ UserAction) \/ AppAction \/ Completion

Spec == Init /\ [][Next]_vars

(***************************************************************************)
(* Sessions restricted to one concern.  Each takes a subset of the steps   *)
(* of Next; those that never reach App's callbacks start in InitListEmpty. *)
(***************************************************************************)
\* Chat: sends in both modes, their late responses, confirmation of the
\* refined description, Continue, and pill clicks back to the first phase
\* and ahead to the last
ChatPills == {"describe", "review"}

NextChat ==
    \/ HealthResolves
    \/ HealthRejects
    \/ \E inputValue \in Inputs : SendAllowed /\ handleSend(inputValue)
    \/ \E pill \in ChatPills : navigateToPhase(pill)
    \/ handleConfirmRefinedPrompt
    \/ handlePhaseAdvance
    \/ \E i \in 1..MaxPending : SendTimerFires(i)
    \/ \E i \in 1..MaxPending, result \in ChatResults : ChatResolves(i, result)
    \/ \E i \in 1..MaxPending, metricsData \in GenerateMetricsResults :
           GenerateMetricsResolves(i, metricsData)
    \/ \E i \in 1..MaxPending : SendCallRejects(i)
    \/ \E i \in 1..MaxPending : ConfirmCallRejects(i)

SpecChat == InitListEmpty /\ [][NextChat]_vars

\* Offline mode: the health check fails, descriptions of every length class
\* are sent, and the user may click a pill before the reply arrives
OfflineInputs == Inputs \cup BoundaryInputs

OfflinePills == {"describe", "metrics"}

NextOffline ==
    \/ HealthRejects
    \/ \E inputValue \in OfflineInputs : SendAllowed /\ handleSend(inputValue)
    \/ \E pill \in OfflinePills : navigateToPhase(pill)
    \/ \E i \in 1..MaxPending : SendTimerFires(i)

SpecOffline == InitListEmpty /\ [][NextOffline]_vars

\* Metric list: derivations in both modes, then the editor of the METRICS
\* panel
EditorInputs == {MidText}

EditorThresholdInputs == {"abc"}

NextEditor ==
    \/ HealthResolves
    \/ HealthRejects
    \/ \E inputValue \in EditorInputs : SendAllowed /\ handleSend(inputValue)
    \/ \E i \in 1..MaxPending : SendTimerFires(i)
    \/ \E i \in 1..MaxPending, result \in ChatResults : ChatResolves(i, result)
    \/ \E i \in 1..MaxPending, metricsData \in GenerateMetricsResults :
           GenerateMetricsResolves(i, metricsData)
    \/ handleConfirmRefinedPrompt
    \/ \E i \in 1..MaxPending : ConfirmCallRejects(i)
    \/ \E i \in 1..MaxMetrics, v \in FieldEdits : handleMetricChange(i, "field", v)
    \/ handleAddMetric
    \/ \E i \in 1..MaxMetrics : handleRemoveMetric(i)
    \/ \E i \in 1..MaxMetrics, v \in EditorThresholdInputs :
           handleThresholdChange(i, "target", v)

SpecEditor == InitListEmpty /\ [][NextEditor]_vars

\* In the sessions below the user adds one metric by hand
NoMetricYet == Len(evalConfig.metrics) = 0

\* Sample data and validation: one metric and the sample rows are added and
\* removed, with Continue, every pill, the validation offer and the
\* validateMetrics call
NextValidate ==
    \/ \E pill \in Pills : navigateToPhase(pill)
    \/ handlePhaseAdvance
    \/ NoMetricYet /\ handleAddMetric
    \/ \E i \in 1..MaxMetrics : handleRemoveMetric(i)
    \/ \E source \in {"manual"} : SelectDatasetSource(source)
    \/ handleAddSampleRow
    \/ \E i \in 1..MaxRows : handleRemoveSampleRow(i)
    \/ handleDryRun
    \/ handleSkipDryRun
    \/ \E i \in 1..MaxPending, assessment \in Assessments : ValidateResolves(i, assessment)
    \/ \E i \in 1..MaxPending : ValidateRejects(i)

SpecValidate == InitListEmpty /\ [][NextValidate]_vars

\* Confirmation of the refined description: the description is drafted,
\* edited and confirmed in both modes; while generateMetrics is pending the
\* user goes to other panels
ConfirmPills == {"connect", "manage"}

\* A generateMetrics call is in flight
GenerationPending == \E h \in 1..Len(pending) : pending[h].kind = "generateMetrics"

NextConfirm ==
    \/ HealthResolves
    \/ HealthRejects
    \/ \E inputValue \in {MidText} : SendAllowed /\ handleSend(inputValue)
    \/ \E i \in 1..MaxPending : SendTimerFires(i)
    \/ \E i \in 1..MaxPending, result \in ChatResults : ChatResolves(i, result)
    \/ \E text \in RefinedEdits : EditRefinedPrompt(text)
    \/ handleConfirmRefinedPrompt
    \/ \E i \in 1..MaxPending, metricsData \in GenerateMetricsResults :
           GenerateMetricsResolves(i, metricsData)
    \/ \E i \in 1..MaxPending : ConfirmCallRejects(i)
    \/ \E pill \in ConfirmPills : GenerationPending /\ navigateToPhase(pill)

SpecConfirm == InitListEmpty /\ [][NextConfirm]_vars

\* Edits while generateMetrics is pending: the call is started by a detailed
\* message or by the confirm button; before it resolves or fails the user
\* goes to the SAMPLE_DATA, CONNECT and MANAGE panels and edits the dataset,
\* the model endpoint, the owner, the team, the schedule and the alert channel
PendingEditPills == {"data", "connect", "manage"}

\* The fields of the configuration record no derivation writes
UnderivedFields ==
    {"owner", "team", "schedule", "alertChannel", "alertOnRegression", "blocking",
     "datasetSource", "datasetUrl", "sampleData", "modelEndpoint"}

\* The groups of fields the user edits while the call is pending
EditGroups ==
    [owner |-> {"owner"}, team |-> {"team"}, schedule |-> {"schedule"},
     alertChannel |-> {"alertChannel"}, dataset |-> {"datasetSource", "datasetUrl"},
     connection |-> {"modelEndpoint"}]

\* The explored sessions change the fields of at most MaxEdited groups
EditAllowed(group) ==
    LET edited == {g \in DOMAIN EditGroups :
                      \E f \in EditGroups[g] : evalConfig[f] # InitialConfig[f]}
    IN  GenerationPending /\ (group \in edited \/ Cardinality(edited) < MaxEdited)

NextPendingEdits ==
    \/ HealthResolves
    \/ \E inputValue \in {MidText} : SendAllowed /\ handleSend(inputValue)
    \/ \E i \in 1..MaxPending, result \in ChatResults : ChatResolves(i, result)
    \/ handleConfirmRefinedPrompt
    \/ \E i \in 1..MaxPending, metricsData \in GenerateMetricsResults :
           GenerateMetricsResolves(i, metricsData)
    \/ \E i \in 1..MaxPending : ConfirmCallRejects(i)
    \/ \E i \in 1..MaxPending : SendCallRejects(i)
    \/ \E pill \in PendingEditPills : GenerationPending /\ navigateToPhase(pill)
    \/ EditAllowed("owner") /\ ClearOwner
    \/ \E emp \in OwnerChoices : EditAllowed("owner") /\ SelectOwner(emp)
    \/ \E value \in TeamChoices : EditAllowed("team") /\ SelectTeam(value)
    \/ \E value \in {"weekly"} : EditAllowed("schedule") /\ SelectSchedule(value)
    \/ \E value \in AlertChannelEdits :
           EditAllowed("alertChannel") /\ EditAlertChannel(value)
    \/ \E source \in {"hive"} : EditAllowed("dataset") /\ SelectDatasetSource(source)
    \/ \E value \in DatasetUrlEdits : EditAllowed("dataset") /\ EditDatasetUrl(value)
    \/ \E value \in EndpointEdits : EditAllowed("connection") /\ EditModelEndpoint(value)

SpecPendingEdits == InitListEmpty /\ [][NextPendingEdits]_vars

\* Local derivation of the metrics: the description is rewritten in the REFINE
\* textarea and confirmed offline, or online with generateMetrics failing
\* Descriptions typed into the textarea: the same keywords in two orders,
\* keywords of one to seven categories, and no keyword at all
SuggestDescriptions ==
    {"extract fraud", "fraud extract", "hello world", "risk of a parse",
     "safe price name", "Classify Summaries", "detect payment fraud",
     "extract classify generate price name fraud safe",
     "safe fraud name price generate classify extract",
     "kid stories", "compliance"}

NextSuggest ==
    \/ HealthResolves
    \/ HealthRejects
    \/ \E inputValue \in {MidText} : SendAllowed /\ handleSend(inputValue)
    \/ \E i \in 1..MaxPending : SendTimerFires(i)
    \/ \E i \in 1..MaxPending, result \in ChatResults : ChatResolves(i, result)
    \/ \E text \in SuggestDescriptions : EditRefinedPrompt(text)
    \/ handleConfirmRefinedPrompt
    \/ \E i \in 1..MaxPending : ConfirmCallRejects(i)

SpecSuggest == InitListEmpty /\ [][NextSuggest]_vars

\* Overlapping sends: the Enter key sends while earlier messages are still
\* unanswered; at most MaxOverlap messages are sent and in flight
OverlapInputs == {ShortText, MidText}

OverlapAllowed == NumUserMessages < MaxOverlap /\ Len(pending) < MaxOverlap

NextOverlap ==
    \/ HealthResolves
    \/ HealthRejects
    \/ \E inputValue \in OverlapInputs : OverlapAllowed /\ handleSend(inputValue)
    \/ \E i \in 1..MaxOverlap : SendTimerFires(i)
    \/ \E i \in 1..MaxOverlap, result \in ChatResults : ChatResolves(i, result)
    \/ \E i \in 1..MaxOverlap, metricsData \in GenerateMetricsResults :
           GenerateMetricsResolves(i, metricsData)
    \/ \E i \in 1..MaxOverlap : SendCallRejects(i)

SpecOverlap == InitListEmpty /\ [][NextOverlap]_vars

\* Final review: the sections are completed from the CONNECT panel and the
\* final review, then the eval is created, run and the session finished or
\* cancelled; the Header is live and the list is fetched again at any time
ReviewPills == {"connect", "review"}

ReviewFieldEdits == {"Answer Accuracy"}

NextReview ==
    \/ \E pill \in ReviewPills : Mounted /\ navigateToPhase(pill)
    \/ \E text \in DescriptionEdits : Mounted /\ EditDescription(text)
    \/ \E value \in EndpointEdits : Mounted /\ EditModelEndpoint(value)
    \/ \E value \in TeamChoices : Mounted /\ SelectTeam(value)
    \/ Mounted /\ NoMetricYet /\ handleAddMetric
    \/ \E i \in 1..MaxMetrics, v \in ReviewFieldEdits :
           Mounted /\ handleMetricChange(i, "field", v)
    \/ ClickAllowed /\ handleCreateEval
    \/ ClickAllowed /\ handleRunEval
    \/ ClickAllowed /\ Done
    \/ onCancel
    \/ \E target \in Views : onNavigate(target)
    \/ FetchAllowed /\ onRefresh
    \/ \E i \in 1..MaxInFlight, result \in CreateResults : CreateResolves(i, result)
    \/ \E i \in 1..MaxInFlight : CreateRejects(i)
    \/ \E i \in 1..MaxInFlight : AppCreateResolves(i)
    \/ \E i \in 1..MaxInFlight : AppCreateRejects(i)
    \/ \E i \in 1..MaxInFlight, result \in ListResults : ListEvalsResolves(i, result)
    \/ \E i \in 1..MaxInFlight : ListEvalsRejects(i)
    \/ \E i \in 1..MaxInFlight, run \in RunResults : RunResolves(i, run)
    \/ \E i \in 1..MaxInFlight : RunRejects(i)

SpecReview == Init /\ [][NextReview]_vars

\* A session whose health check fails: the user adds a metric, enters a
\* sample row and runs the validation
NextHealthFails ==
    \/ HealthRejects
    \/ \E pill \in Pills : navigateToPhase(pill)
    \/ handlePhaseAdvance
    \/ NoMetricYet /\ handleAddMetric
    \/ \E source \in {"manual"} : SelectDatasetSource(source)
    \/ handleAddSampleRow
    \/ \E i \in 1..MaxRows, v \in SampleCellEdits : handleSampleDataChange(i, "input", v)
    \/ handleDryRun
    \/ handleSkipDryRun
    \/ \E i \in 1..MaxPending, assessment \in Assessments : ValidateResolves(i, assessment)
    \/ \E i \in 1..MaxPending : ValidateRejects(i)

SpecHealthFails == InitListEmpty /\ [][NextHealthFails]_vars

\* Threshold inputs of the METRICS panel: what e.target.value can be when
\* the user types into the number inputs (out-of-range numbers are not
\* refused by min/max; text that is no number arrives as it is parsed)
RangeThresholdInputs == {"150", "-5", "abc"}

NextThreshold ==
    \/ \E pill \in {"metrics"} : navigateToPhase(pill)
    \/ handleAddMetric
    \/ \E i \in 1..MaxMetrics, field \in {"baseline", "target"},
          v \in RangeThresholdInputs : handleThresholdChange(i, field, v)

SpecThreshold == InitListEmpty /\ [][NextThreshold]_vars

\* Continue: the user fills in fields of the panels, moves with the pills
\* and clicks the Continue button of the panel shown
NextContinue ==
    \/ \E pill \in Pills : navigateToPhase(pill)
    \/ handlePhaseAdvance
    \/ \E value \in EndpointEdits : EditModelEndpoint(value)
    \/ \E value \in TeamChoices : SelectTeam(value)
    \/ \E source \in {"hive"} : SelectDatasetSource(source)
    \/ \E value \in DatasetUrlEdits : EditDatasetUrl(value)
    \/ \E value \in NameEdits : EditName(value)
    \/ ToggleAlertOnRegression

SpecContinue == InitListEmpty /\ [][NextContinue]_vars

(***************************************************************************)
(* Properties: sample data and validation (under SpecValidate)             *)
(***************************************************************************)
\* The step taken is the operation op
Did(op) == last'.op = op

ValidationTexts ==
    {"validation result: " \o a : a \in Assessments} \cup {"quick validation (API unavailable)"}

\* The transcript shows the outcome of a validation, resolved or failed
ValidationReported == \E k \in 1..Len(messages) : messages[k].text \in ValidationTexts

ValidationInFlight == \E k \in 1..Len(pending) : pending[k].kind = "validateMetrics"

\* C7: Continue in SAMPLE_DATA presents the validation offer and keeps the
\* phase at SAMPLE_DATA exactly when sampleData is non-empty, metrics is
\* non-empty and dryRunDone is false; in every other case it presents no
\* offer and goes straight to CONNECT.
C7_ContinueOffersValidation ==
    [][(Did("handlePhaseAdvance") /\ phase = SAMPLE_DATA) =>
          IF Len(evalConfig.sampleData) > 0 /\ Len(evalConfig.metrics) > 0 /\ ~dryRunDone
          THEN showDryRunPrompt' /\ phase' = SAMPLE_DATA /\ messages' = messages
          ELSE ~showDryRunPrompt' /\ phase' = CONNECT]_vars

\* A Continue has presented the offer, after an earlier Continue with no
\* sample data went straight to CONNECT
C7_Witness ==
    /\ last.op = "handlePhaseAdvance"
    /\ phase = SAMPLE_DATA
    /\ showDryRunPrompt
    /\ ~dryRunDone
    /\ Len(evalConfig.sampleData) > 0
    /\ Len(evalConfig.metrics) > 0
    /\ highestPhase = CONNECT
    /\ \E k \in 1..Len(messages) : messages[k] = Assistant("connect your model")

\* C8 as stated: once the validateMetrics call of an accepted offer has
\* completed, resolved or failed, the session is in CONNECT.
C8_AsStated ==
    [][(Did("ValidateResolves") \/ Did("ValidateRejects")) => phase' = CONNECT]_vars

\* C8 amended: accepting the offer puts a validateMetrics call in flight; its
\* completion, resolved or failed, leaves the phase and the watermark where
\* they were, sets dryRunDone and clears isDryRunning: no completion moves
\* the session.  A click on Continue in SAMPLE_DATA after the validation
\* moves to CONNECT and presents no new offer.
C8_ValidationThenContinue ==
    [][/\ Did("handleDryRun") => isDryRunning' /\ ~showDryRunPrompt' /\ phase' = phase
                                 /\ Len(pending') = Len(pending) + 1
                                 /\ pending'[Len(pending')].kind = "validateMetrics"
       /\ (Did("ValidateResolves") \/ Did("ValidateRejects")) =>
              /\ phase' = phase
              /\ highestPhase' = highestPhase
              /\ dryRunDone'
              /\ ~isDryRunning'
              /\ Len(pending') = Len(pending) - 1
       /\ (Did("handlePhaseAdvance") /\ phase = SAMPLE_DATA /\ dryRunDone) =>
              phase' = CONNECT /\ showDryRunPrompt' = showDryRunPrompt]_vars

\* The call of an accepted offer has completed and the session is still in
\* SAMPLE_DATA
C8_Witness ==
    /\ last.op \in {"ValidateResolves", "ValidateRejects"}
    /\ phase = SAMPLE_DATA
    /\ highestPhase = SAMPLE_DATA
    /\ dryRunDone
    /\ ~isDryRunning
    /\ ~ValidationInFlight

\* C9: declining the offer moves to CONNECT and issues no validateMetrics
\* call; once a validation has reported any assessment or has failed, the
\* next Continue in SAMPLE_DATA moves to CONNECT and presents no offer.
C9_ValidationNeverBlocks ==
    [][/\ Did("handleSkipDryRun") =>
              phase' = CONNECT /\ pending' = pending /\ ~ValidationInFlight'
              /\ ~showDryRunPrompt' /\ ~isDryRunning'
       /\ (Did("handlePhaseAdvance") /\ phase = SAMPLE_DATA /\ ValidationReported) =>
              phase' = CONNECT /\ ~showDryRunPrompt']_vars

\* Continue has moved to CONNECT after a reported validation, with sample
\* data and metrics still present
C9_Witness ==
    /\ last.op = "handlePhaseAdvance"
    /\ phase = CONNECT
    /\ ValidationReported
    /\ Len(evalConfig.sampleData) > 0
    /\ Len(evalConfig.metrics) > 0
    /\ ~showDryRunPrompt

(***************************************************************************)
(* Properties: offline replies to a description (under SpecOffline)        *)
(***************************************************************************)
\* The step is the offline reply to a message that was sent from OBJECTIVE;
\* Sent is what its closure captured
Sent == pending[last'.arg]

RepliesToObjective == Did("SendTimerFires") /\ Sent.phase = OBJECTIVE

\* C4 as stated: a description shorter than the "detailed enough" length,
\* submitted from OBJECTIVE offline, moves the session to REFINE.
C4_AsStated ==
    [][(RepliesToObjective /\ Len(Sent.userMsg) < GoodLength) => phase' = REFINE]_vars

\* C4 amended: a description shorter than 200 characters, submitted from
\* OBJECTIVE offline, never moves the session to METRICS and derives no
\* metrics; with at least 20 characters it moves the session to REFINE and
\* drafts the refined description, with fewer than 20 it leaves the phase as
\* it is.
C4_ShortGoesToRefine ==
    [][(RepliesToObjective /\ Len(Sent.userMsg) < GoodLength) =>
          /\ evalConfig'.metrics = evalConfig.metrics
          /\ evalConfig'.rationale = evalConfig.rationale
          /\ phase # METRICS => phase' # METRICS
          /\ IF Len(Sent.userMsg) >= MinDescriptionLength
             THEN /\ phase' = REFINE
                  /\ evalConfig'.capabilityWhat = Sent.userMsg
                  /\ evalConfig'.refinedPrompt # ""
             ELSE phase' = phase]_vars

\* A description between the two lengths compared with (100 and 200) was
\* answered: the session is in REFINE with a draft and no metrics
C4_Witness ==
    /\ last.op = "SendTimerFires"
    /\ phase = REFINE
    /\ Len(evalConfig.capabilityWhat) > DetailedLength
    /\ Len(evalConfig.capabilityWhat) < GoodLength
    /\ evalConfig.refinedPrompt # ""
    /\ evalConfig.metrics = <<>>

\* C5 as stated: offline, a description whose length is at or above the
\* "detailed enough" length, submitted from OBJECTIVE, moves the session to
\* METRICS with non-empty metrics and as many rationale entries as metrics.
C5_AsStated ==
    [][(RepliesToObjective /\ Len(Sent.userMsg) >= GoodLength) =>
          /\ phase' = METRICS
          /\ evalConfig'.metrics # <<>>
          /\ Len(evalConfig'.rationale) = Len(evalConfig'.metrics)]_vars

\* C5 amended: offline, a description longer than 200 characters, submitted
\* from OBJECTIVE, moves the session to METRICS with non-empty metrics and as
\* many rationale entries as metrics.
C5_LongGoesToMetrics ==
    [][(RepliesToObjective /\ Len(Sent.userMsg) > GoodLength) =>
          /\ phase' = METRICS
          /\ evalConfig'.metrics # <<>>
          /\ Len(evalConfig'.rationale) = Len(evalConfig'.metrics)
          /\ evalConfig'.description = Sent.userMsg]_vars

\* A description of 201 characters was answered: the session is in METRICS
\* with metrics and their rationale
C5_Witness ==
    /\ last.op = "SendTimerFires"
    /\ phase = METRICS
    /\ Len(evalConfig.description) = GoodLength + 1
    /\ Len(evalConfig.metrics) > 1
    /\ Len(evalConfig.rationale) = Len(evalConfig.metrics)

\* C6: offline, the reply to a too-short description such as "x", submitted
\* from OBJECTIVE, appends the "tell me more" prompt to the transcript and
\* leaves the phase, the watermark and every field of the configuration
\* record as they were.
C6_TooShortAsksForMore ==
    [][(RepliesToObjective /\ Len(Sent.userMsg) < MinDescriptionLength) =>
          /\ messages' = Append(messages, Assistant(TellMeMore))
          /\ phase' = phase
          /\ highestPhase' = highestPhase
          /\ evalConfig' = evalConfig]_vars

\* "x" was answered: the transcript ends with the prompt, the session is in
\* OBJECTIVE and the configuration record is the initial one
C6_Witness ==
    /\ last.op = "SendTimerFires"
    /\ messages = <<Greeting, User(ShortText), Assistant(TellMeMore)>>
    /\ phase = OBJECTIVE
    /\ highestPhase = OBJECTIVE
    /\ evalConfig = InitialConfig

(***************************************************************************)
(* Properties: the metric list and its rationale (under SpecEditor)        *)
(***************************************************************************)
\* seq2 is seq without its i-th element, the others in their order
Without(seq, i, seq2) ==
    /\ Len(seq2) = Len(seq) - 1
    /\ \A k \in 1..Len(seq2) : seq2[k] = IF k < i THEN seq[k] ELSE seq[k + 1]

\* C2: handleRemoveMetric(i) removes metrics[i], the other metrics keeping
\* their order; when i is an index of rationale it removes rationale[i] too,
\* the other entries keeping their order; when i is beyond rationale it
\* leaves rationale as it is. (The model counts indices from 1.)
C2_RemoveMetricRemovesRationale ==
    [][Did("handleRemoveMetric") =>
          /\ Without(evalConfig.metrics, last'.arg, evalConfig'.metrics)
          /\ IF last'.arg <= Len(evalConfig.rationale)
             THEN Without(evalConfig.rationale, last'.arg, evalConfig'.rationale)
             ELSE evalConfig'.rationale = evalConfig.rationale]_vars

\* The second derived metric and its rationale are first, which a removal
\* of the first metric with its rationale brought about, and the last
\* removal was of a metric beyond the rationale array
C2_Witness ==
    /\ last.op = "handleRemoveMetric"
    /\ last.arg = 2
    /\ Len(evalConfig.metrics) = 1
    /\ evalConfig.metrics[1].field \in {"String Match", "Resolution Rate"}
    /\ evalConfig.rationale \in {<<Categories[5].rationale[1]>>, <<SvcMetrics[2].rationale>>}

\* C3: rationale is no longer than metrics, and each rationale[i] is the
\* rationale that was derived together with the metric now at metrics[i].
C3_RationaleAligned ==
    /\ Len(evalConfig.rationale) <= Len(evalConfig.metrics)
    /\ Len(metricOrigin) = Len(evalConfig.metrics)
    /\ \A i \in 1..Len(evalConfig.rationale) : evalConfig.rationale[i] = metricOrigin[i]

\* After a derivation, a removal, an addition and an edit: the second derived
\* metric, renamed, is first with its rationale, followed by a metric added
\* by hand
C3_Witness ==
    /\ last.op \in {"handleMetricChange", "handleThresholdChange"}
    /\ Len(evalConfig.metrics) = 2
    /\ evalConfig.metrics[1].field \in FieldEdits
    /\ evalConfig.metrics[1].description \in {"Fuzzy match for names/addresses",
                                               "Issues resolved without handoff"}
    /\ evalConfig.metrics[2].description = ""
    /\ evalConfig.rationale \in {<<Categories[5].rationale[1]>>, <<SvcMetrics[2].rationale>>}

(***************************************************************************)
(* Properties: phases and derivation failures (under SpecChat)             *)
(***************************************************************************)
\* C1: the watermark never decreases: over every step (send, confirmation,
\* Continue, pill click, late response) phaseIndex(highestPhase) is at least
\* what it was.
C1_WatermarkNeverDecreases ==
    [][phaseIndex(highestPhase') >= phaseIndex(highestPhase)]_vars

\* The late reply to a message sent from OBJECTIVE has moved the session back
\* to REFINE after a pill click had taken it to REVIEW: the watermark is
\* still REVIEW
C1_Witness ==
    /\ last.op \in {"SendTimerFires", "SendCallRejects", "ChatResolves"}
    /\ phase = REFINE
    /\ highestPhase = REVIEW

\* The step is the failure of a generateMetrics call; Failed is the
\* continuation it ends
Failed == pending[last'.arg]

GenerateMetricsFails ==
    \/ Did("SendCallRejects") /\ Failed.kind = "generateMetrics"
    \/ Did("ConfirmCallRejects")

\* The state the offline heuristic leaves for description d
FellBackTo(d) ==
    /\ phase = METRICS => phase' = METRICS
    /\ evalConfig'.metrics # <<>>
    /\ evalConfig'.metrics = suggestMetricsWithRationale(d).metrics
    /\ Len(evalConfig'.rationale) = Len(evalConfig'.metrics)

\* C10 as stated: when generateMetrics fails, in handleSend after the service
\* answered is_detailed_enough or in handleConfirmRefinedPrompt, the session
\* stays in METRICS with the non-empty metrics of
\* suggestMetricsWithRationale for the same description and as many
\* rationale entries as metrics.
C10_AsStated ==
    [][GenerateMetricsFails => FellBackTo(Failed.userMsg)]_vars

\* The part of C10 the code keeps: the failure inside
\* handleConfirmRefinedPrompt falls back to the offline heuristic.
C10_ConfirmFallsBack ==
    [][Did("ConfirmCallRejects") => FellBackTo(Failed.userMsg)]_vars

(***************************************************************************)
(* Properties: create, run and done in the final review (under SpecReview) *)
(***************************************************************************)
CreateFailureText == "API save failed: the eval config has been preserved"

\* The transcript reports a failed createEval call of handleCreateEval
CreateFailureReported ==
    \E k \in 1..Len(messages) : messages[k] = Assistant(CreateFailureText)

\* The step issues a request for the call
Issues(call) ==
    /\ Len(requests') = Len(requests) + 1
    /\ requests'[Len(requests')].call = call

\* C11 as stated: once a createEval call made from the final review has
\* failed and no eval was created, the guided session stays, holding its
\* configuration record and its transcript, until the user leaves it with
\* Cancel or the Header (React discards the state of GuidedEval when App
\* leaves the guided view).
C11_AsStated ==
    [][(CreateFailureReported /\ createdEvalId = NoEval /\ Mounted /\ ~Mounted')
          => (Did("onCancel") \/ Did("onNavigate"))]_vars

\* C11, the failing call's own step: the catch block of handleCreateEval
\* appends the failure to the transcript and leaves the configuration record
\* as it is.
C11_CatchKeepsRecord ==
    [][Did("CreateRejects") =>
          /\ evalConfig' = evalConfig
          /\ Mounted => messages' = Append(messages, Assistant(CreateFailureText))]_vars

\* C12 as stated: a createEval request is issued only by a click of the user
\* (Create Eval, or Done), never by the step that handles the outcome of an
\* earlier call.
C12_AsStated ==
    [][Issues("createEval") => (Did("handleCreateEval") \/ Did("Done"))]_vars

\* C12, the calls of the final review other than createEval: a runEval
\* request is issued only by a click on Run Eval.
C12_RunIssuedByClick == [][Issues("runEval") => Did("handleRunEval")]_vars

\* C13 as stated: every createEval request carries a configuration record
\* for which getPhaseValidation reports no issue.
C13_AsStated ==
    \A k \in 1..Len(requests) :
        requests[k].call = "createEval" => requests[k].issues = {}

\* C13, the Create Eval button: the createEval request of handleCreateEval
\* carries a record without issues.
C13_CreateButtonBlocked ==
    \A k \in 1..Len(requests) :
        requests[k].by = "handleCreateEval" => requests[k].issues = {}

(***************************************************************************)
(* Properties: the phase indicator (under SpecChat)                        *)
(***************************************************************************)
\* The status of a pill by the precedence: active, else incomplete when
\* reached and incomplete, else completed when reached, else neutral
StatusByPrecedence(pill) ==
    LET reached == phaseIndex(phaseMap(pill)) <= phaseIndex(highestPhase)
    IN  IF phase \in PILL_PHASES[pill] THEN "active"
        ELSE IF reached /\ pill \in DOMAIN getPhaseValidation(evalConfig) THEN "incomplete"
        ELSE IF reached THEN "completed"
        ELSE "neutral"

\* The class attribute that shows a status
ClassOfStatus(status) ==
    IF status = "neutral" THEN "phase-step clickable"
    ELSE "phase-step clickable " \o status

\* C14 as stated: every pill, the review pill included, is rendered with the
\* status the precedence gives it; in particular the pill of the current
\* phase is active.
C14_AsStated ==
    \A pill \in Pills : PhaseIndicator[pill] = ClassOfStatus(StatusByPrecedence(pill))

\* C14, the pills of the phases before REVIEW: each is rendered with the
\* status the precedence gives it.
C14_PillsBeforeReview ==
    \A pill \in Pills \ {"review"} :
        PhaseIndicator[pill] = ClassOfStatus(StatusByPrecedence(pill))

(***************************************************************************)
(* Properties: pill clicks (under SpecValidate and SpecChat)               *)
(***************************************************************************)
\* C15: a pill click only navigates.  The configuration record, the
\* transcript, dryRunDone, showDryRunPrompt and the loading flags are
\* unchanged, the session is in the phase of the pill, and the watermark is
\* the further of the old watermark and that phase.
C15_PillClickOnlyNavigates ==
    [][Did("navigateToPhase") =>
          /\ UNCHANGED <<evalConfig, messages, dryRunDone, showDryRunPrompt, isTyping,
                         isGeneratingMetrics, isDryRunning, isCreating, isRunning>>
          /\ phase' = phaseMap(last'.arg)
          /\ highestPhase' = IF phaseIndex(phase') > phaseIndex(highestPhase)
                             THEN phase' ELSE highestPhase]_vars

\* C15 witness: with the validation offer shown in SAMPLE_DATA the user
\* clicked the metrics pill; the offer, the transcript and the watermark are
\* as they were.
C15_Witness ==
    /\ last = [op |-> "navigateToPhase", arg |-> "metrics"]
    /\ phase = METRICS
    /\ highestPhase = SAMPLE_DATA
    /\ showDryRunPrompt
    /\ Len(messages) > 1
    /\ Len(evalConfig.sampleData) > 0

\* C16 as stated: a pill click moves the session only to a phase the
\* watermark has reached, and leaves the watermark where it is.
C16_AsStated ==
    [][Did("navigateToPhase") =>
          /\ phaseIndex(phase') <= phaseIndex(highestPhase)
          /\ highestPhase' = highestPhase]_vars

\* C16, clicks on the pills of reached phases: the watermark stays.
C16_BackwardClickKeepsWatermark ==
    [][(Did("navigateToPhase") /\ phaseIndex(phaseMap(last'.arg)) <= phaseIndex(highestPhase))
          => highestPhase' = highestPhase]_vars

(***************************************************************************)
(* Properties: the transcript and overlapping sends (under SpecOverlap)    *)
(***************************************************************************)
\* s is a prefix of t
IsPrefix(s, t) == Len(s) <= Len(t) /\ SubSeq(t, 1, Len(s)) = s

\* C17: the transcript is append-only.  In every step the messages list
\* before the step is a prefix of the list after it.
C17_TranscriptAppendOnly == [][IsPrefix(messages, messages')]_vars

\* C17 witness: two messages were sent before either was answered, one
\* answer is in the transcript and the late answer to the other has just
\* been appended after it.
C17_Witness ==
    /\ last.op \in {"SendTimerFires", "ChatResolves", "SendCallRejects"}
    /\ Len(messages) = 5
    /\ messages[2].role = "user"
    /\ messages[3].role = "user"
    /\ messages[4].role = "assistant"
    /\ messages[5].role = "assistant"

\* The index in pending of the continuation the step completes
CompletedIndex == IF Did("ChatResolves") THEN last'.arg.i ELSE last'.arg

\* The step appends a reply of handleSend to the transcript
SendReplies ==
    /\ \/ Did("SendTimerFires")
       \/ Did("ChatResolves")
       \/ Did("SendCallRejects")
       \/ Did("GenerateMetricsResolves")
    /\ pending[CompletedIndex].handler = "handleSend"

\* The send whose message is at position k of the transcript has no reply yet
Unanswered(k) ==
    \E h \in 1..Len(pending) :
        /\ pending[h].handler = "handleSend"
        /\ pending[h].kind \in {"timer", "sendChatMessage"}
        /\ pending[h].seen + 1 = k

\* A message sent after the one continuation c belongs to has been answered
AnsweredLater(c) ==
    \E k \in (c.seen + 2)..Len(messages) :
        messages[k].role = "user" /\ ~Unanswered(k)

\* C18 as stated: replies are appended in the order their messages were
\* sent.  When the reply to a message is appended, no message sent after it
\* has been answered already.
C18_AsStated == [][SendReplies => ~AnsweredLater(pending[CompletedIndex])]_vars

\* The continuations in flight that can change the phase
PhaseTransitionsInFlight ==
    {h \in 1..Len(pending) :
        pending[h].handler \in {"handleSend", "handleConfirmRefinedPrompt"}}

\* C19 as stated: at most one asynchronous operation that can change the
\* phase is in flight.
C19_AsStated == Cardinality(PhaseTransitionsInFlight) <= 1

\* C20 as stated: an operation is not started while its loading flag is set.
C20_AsStated ==
    [][/\ Did("handleSend") => ~isTyping
       /\ Did("handleConfirmRefinedPrompt") => ~isGeneratingMetrics
       /\ Did("handleDryRun") => ~isDryRunning
       /\ Did("handleCreateEval") => ~isCreating
       /\ Did("handleRunEval") => ~isRunning]_vars

\* C20, the operations started by a button: confirm, validation, create and
\* run are not started while their loading flag is set.
C20_ButtonsDisabledWhileLoading ==
    [][/\ Did("handleConfirmRefinedPrompt") => ~isGeneratingMetrics
       /\ Did("handleDryRun") => ~isDryRunning
       /\ Did("handleCreateEval") => ~isCreating
       /\ Did("handleRunEval") => ~isRunning]_vars

(***************************************************************************)
(* Properties: edits while metrics are generated (under SpecPendingEdits)  *)
(***************************************************************************)
\* The step merges the outcome of a generateMetrics call, resolved or failed
MergesGeneration ==
    Did("GenerateMetricsResolves") \/ Did("ConfirmCallRejects") \/ Did("SendCallRejects")

\* The field each edit of an underived field writes
EditedField ==
    [ClearOwner |-> "owner", SelectOwner |-> "owner", SelectTeam |-> "team",
     SelectSchedule |-> "schedule", EditAlertChannel |-> "alertChannel",
     SelectDatasetSource |-> "datasetSource", EditDatasetUrl |-> "datasetUrl",
     EditModelEndpoint |-> "modelEndpoint"]

\* C21: edits made while generateMetrics is pending are accepted and kept.
\* An owner, team, schedule, alert channel, dataset source, dataset URL or
\* model endpoint entered while the call is in flight is stored as entered,
\* and the step that merges the call's outcome, resolved or failed, leaves
\* every field the derivation does not write as it was.
C21_EditsSurviveGeneration ==
    [][/\ \A op \in DOMAIN EditedField :
              (GenerationPending /\ Did(op)) => evalConfig'[EditedField[op]] = last'.arg
       /\ MergesGeneration =>
              \A f \in UnderivedFields : evalConfig'[f] = evalConfig[f]]_vars

\* C21 witness: generateMetrics has just resolved and its metrics are in the
\* record, together with the owner chosen while it was pending.
C21_Witness ==
    /\ last.op = "GenerateMetricsResolves"
    /\ Len(evalConfig.metrics) > 0
    /\ evalConfig.owner = "sarachen"

(***************************************************************************)
(* Properties: the offline session (under SpecHealthFails)                 *)
(***************************************************************************)
\* The calls of the suggestion service
ServiceCalls == {"sendChatMessage", "generateMetrics", "validateMetrics"}

\* The step issues a call: a continuation is added to those in flight
IssuedCall == Len(pending') > Len(pending)

\* C22 as stated: once the health check has failed (apiAvailable stays false),
\* no operation of the session issues a sendChatMessage, generateMetrics or
\* validateMetrics call. Violated: handleDryRun calls validateMetrics without
\* testing apiAvailable.
C22_AsStated ==
    [][(~healthPending /\ ~apiAvailable /\ IssuedCall)
          => pending'[Len(pending')].kind \notin ServiceCalls]_vars

(***************************************************************************)
(* Properties: the keyword scan of the local derivation (SpecSuggest)      *)
(***************************************************************************)
\* The step derives the metrics locally: the confirmation in offline mode, or
\* the fallback after generateMetrics failed
DerivesLocally ==
    \/ Did("handleConfirmRefinedPrompt") /\ ~apiAvailable
    \/ Did("ConfirmCallRejects")

\* The description a local derivation of this step reads
LocalDescription ==
    IF Did("ConfirmCallRejects")
    THEN pending[last'.arg].userMsg
    ELSE OrElse(evalConfig.refinedPrompt, evalConfig.capabilityWhat)

FieldsOf(metrics) == [k \in 1..Len(metrics) |-> metrics[k].field]

\* The i-th category of the scan has a keyword in description
CategoryMatches(i, description) ==
    \E k \in Categories[i].keywords : Includes(ToLowerCase(description), k)

\* The templates of the matching categories, first category first
RECURSIVE TemplatesFrom(_, _)
TemplatesFrom(i, description) ==
    IF i > Len(Categories) THEN <<>>
    ELSE (IF CategoryMatches(i, description) THEN Categories[i].metrics ELSE <<>>)
             \o TemplatesFrom(i + 1, description)

\* C23: the local derivation returns the templates of every matching
\* category concatenated in the scan order extraction, classification,
\* generation, numeric, fuzzy name, fraud/risk, safety, whatever the order of
\* the keywords in the description, and the generic pair exactly when no
\* category matches.
C23_ScanOrderConcatenation ==
    [][DerivesLocally =>
          LET d       == LocalDescription
              matched == {i \in 1..Len(Categories) : CategoryMatches(i, d)}
              fields  == FieldsOf(evalConfig'.metrics)
          IN  /\ matched # {} => evalConfig'.metrics = TemplatesFrom(1, d)
              /\ matched = {} <=> fields = <<"Overall Accuracy", "Output Quality">>
              /\ (CategoryMatches(1, d) /\ CategoryMatches(6, d)) =>
                     {"Field Accuracy", "Format Compliance", "Risk Detection"}
                         \subseteq {fields[k] : k \in 1..Len(fields)}]_vars

\* C23 witness: the description names the fraud keyword before the extraction
\* keyword, and the derived list has the extraction metrics first.
C23_Witness ==
    /\ last.op = "handleConfirmRefinedPrompt"
    /\ evalConfig.description = "fraud extract"
    /\ FieldsOf(evalConfig.metrics)
           = <<"Field Accuracy", "Format Compliance", "Risk Detection">>

(***************************************************************************)
(* Properties: what the confirmation derives (under SpecConfirm)           *)
(***************************************************************************)
\* The step completes a derivation started by the confirm button
ConfirmCompletes ==
    \/ Did("handleConfirmRefinedPrompt") /\ ~apiAvailable
    \/ Did("ConfirmCallRejects")
    \/ /\ Did("GenerateMetricsResolves")
       /\ pending[last'.arg].handler = "handleConfirmRefinedPrompt"

\* The description the confirm button finalized: read at the click, and
\* carried by the continuation when the derivation completes later
FinalizedDescription ==
    IF Did("handleConfirmRefinedPrompt")
    THEN IF evalConfig.refinedPrompt # "" THEN evalConfig.refinedPrompt
         ELSE evalConfig.capabilityWhat
    ELSE pending[last'.arg].userMsg

\* thresholds has exactly the keys field_measurementId of metrics, each
\* mapped to the thresholds of its metric
ThresholdsMatch(thresholds, metrics) ==
    /\ DOMAIN thresholds =
           UNION {{metrics[i].field \o "_" \o metrics[i].measurement[j] :
                      j \in 1..Len(metrics[i].measurement)} : i \in 1..Len(metrics)}
    /\ \A i \in 1..Len(metrics) : \A j \in 1..Len(metrics[i].measurement) :
           thresholds[metrics[i].field \o "_" \o metrics[i].measurement[j]]
               = metrics[i].thresholds

\* C24: the confirm button moves the session to METRICS and finalizes
\* refinedPrompt, or capabilityWhat when refinedPrompt is empty; when the
\* derivation completes, description and capabilityWhat are the finalized
\* description, name, metrics and rationale are derived from it (locally, or
\* by the generateMetrics call it was sent with), and metricThresholds has
\* exactly the keys field_measurementId, each with its metric's thresholds.
C24_ConfirmDerivesFromFinalized ==
    [][/\ Did("handleConfirmRefinedPrompt") =>
              /\ phase' = METRICS
              /\ apiAvailable =>
                     /\ pending'[Len(pending')].kind = "generateMetrics"
                     /\ pending'[Len(pending')].userMsg = FinalizedDescription
       /\ ConfirmCompletes =>
              LET d == FinalizedDescription
                  c == evalConfig'
              IN  /\ c.description = d
                  /\ c.capabilityWhat = d
                  /\ IF Did("GenerateMetricsResolves")
                     THEN \E r \in GenerateMetricsResults :
                             /\ c.name = r.eval_name
                             /\ c.metrics = MapServiceMetrics(r.metrics)
                             /\ c.rationale = MapServiceRationale(r.metrics)
                     ELSE /\ c.name = generateEvalName(d)
                          /\ c.metrics = suggestMetricsWithRationale(d).metrics
                          /\ c.rationale = suggestMetricsWithRationale(d).rationale
                  /\ Len(c.metrics) > 0
                  /\ ThresholdsMatch(c.metricThresholds, c.metrics)]_vars

\* C24 witness: the textarea was emptied before the confirmation, so the
\* description typed in the conversation was finalized, and the metrics and
\* thresholds derived from it are in the record.
C24_Witness ==
    /\ last.op = "handleConfirmRefinedPrompt"
    /\ phase = METRICS
    /\ evalConfig.refinedPrompt = ""
    /\ evalConfig.description = Trim(MidText)
    /\ evalConfig.capabilityWhat = evalConfig.description
    /\ DOMAIN evalConfig.metricThresholds
           = {"Numeric Accuracy_numeric_tolerance", "String Match_fuzzy_string_match"}

(***************************************************************************)
(* Properties: threshold values (under SpecThreshold)                      *)
(***************************************************************************)
\* C25 as stated: every baseline and target of the metric list is a number
\* between 0 and 100 after any sequence of editor operations. Violated:
\* handleThresholdChange stores parseInt(value) || 0 as it is.
C25_AsStated ==
    \A i \in 1..Len(evalConfig.metrics) :
        /\ evalConfig.metrics[i].thresholds.baseline \in 0..100
        /\ evalConfig.metrics[i].thresholds.target \in 0..100

(***************************************************************************)
(* Properties: the Continue button (under SpecContinue)                    *)
(***************************************************************************)
\* C26: Continue moves from METRICS to SAMPLE_DATA, from CONNECT to MANAGE
\* and from MANAGE to REVIEW, one phase ahead in PHASE_ORDER each time, and
\* leaves the configuration record as it is. No Continue step starts in
\* OBJECTIVE, REFINE or REVIEW (the handler has no branch for them and their
\* panels have no Continue button), so no Continue step leaves REVIEW.
C26_ContinueAdvancesOnePhase ==
    [][Did("handlePhaseAdvance") =>
          /\ evalConfig' = evalConfig
          /\ phase = METRICS => phase' = SAMPLE_DATA
          /\ phase = CONNECT => phase' = MANAGE
          /\ phase = MANAGE => phase' = REVIEW
          /\ phase \in {METRICS, CONNECT, MANAGE} =>
                 phaseIndex(phase') = phaseIndex(phase) + 1
          /\ phase \notin {OBJECTIVE, REFINE, REVIEW}]_vars

\* C26 witness: Continue in CONNECT has just led to MANAGE, with the team and
\* the endpoint entered before still in the record.
C26_Witness ==
    /\ last.op = "handlePhaseAdvance"
    /\ phase = MANAGE
    /\ evalConfig.team = "Lending"
    /\ evalConfig.modelEndpoint # ""

(***************************************************************************)
(* Properties: the watermark (under SpecChat)                              *)
(***************************************************************************)
\* C27: in every reachable state the watermark highestPhase is at or ahead
\* of the current phase in PHASE_ORDER.
C27_WatermarkAtOrAhead == phaseIndex(highestPhase) >= phaseIndex(phase)

\* C27 witness: a reply of the conversation has just moved the session
\* forward from the first phase, and the watermark has followed.
C27_Witness ==
    /\ last.op \in {"SendTimerFires", "ChatResolves"}
    /\ phase \in {REFINE, METRICS}
    /\ highestPhase = phase

(***************************************************************************)
(* Properties: one record for each session (under SpecReview)              *)
(***************************************************************************)
\* C28 as stated: once createEval has returned an id (createdEvalId is set),
\* no later step of the session issues another createEval request. Violated:
\* Done calls onComplete, which is App.handleCreateEval, which calls
\* createEval with the same record.
C28_AsStated ==
    [][createdEvalId # NoEval =>
          ~(/\ Len(requests') > Len(requests)
            /\ requests'[Len(requests')].call = "createEval")]_vars

(***************************************************************************)
(* Properties: loading flags after their call completes (under SpecChat)   *)
(***************************************************************************)
\* The step is the completion, resolved or failed, of a generateMetrics call
GenerationCompletes ==
    \/ Did("GenerateMetricsResolves")
    \/ Did("ConfirmCallRejects")
    \/ Did("SendCallRejects") /\ pending[last'.arg].kind = "generateMetrics"

\* The step ends a send: its timer fires, its call fails, or sendChatMessage
\* resolves
SendCompletes ==
    Did("SendTimerFires") \/ Did("SendCallRejects") \/ Did("ChatResolves")

\* C29 as stated: when the call or timer that set a loading flag resolves or
\* fails, the flag is false again: isTyping after a send completes,
\* isGeneratingMetrics after generateMetrics completes. Violated: the catch
\* block of handleSend does not clear isGeneratingMetrics.
C29_AsStated ==
    [][/\ (SendCompletes /\ Len(pending') = 0) => ~isTyping'
       /\ (GenerationCompletes /\ Len(pending') = 0) => ~isGeneratingMetrics']_vars

(***************************************************************************)
(* Properties: late responses and the phase (under SpecOffline)            *)
(***************************************************************************)
\* C30 as stated: when the offline timer of a send fires after the user
\* left the phase the message was sent in, applying the response leaves the
\* current phase as it is. Violated: the callback compares the response's
\* phase with the phase of the send, not with the current one.
C30_AsStated ==
    [][(Did("SendTimerFires") /\ pending[last'.arg].phase # phase)
          => phase' = phase]_vars

====
